---- MODULE Spec2Model ----
(***************************************************************************)
(* Archery Coach (src/app.js, the archeryCoach.v2 script): the document    *)
(* held in `state`, the localStorage slot, the load normalisation and the  *)
(* UI event handlers that mutate the document.                             *)
(*                                                                         *)
(* Values.  An id is a positive integer; None (0) stands for undefined or *)
(* a missing key, Null (-1) for the JSON value null; both are falsy.       *)
(* uid() is modelled by the counter nextUid: every value it returns is     *)
(* different from all earlier ones.  new Date() is an input of the handler *)
(* that reads it.                                                          *)
(***************************************************************************)
EXTENDS Integers, Sequences, FiniteSets, TLC

VARIABLES
  state,              \* the in-memory document (app.js `state`)
  slot,               \* localStorage[STORAGE_KEY]: the stored text
  nextUid,            \* the last value handed out by uid()
  editingPracticeId,  \* app.js `editingPracticeId`
  editingCompId,      \* app.js `editingCompId`
  editingAimId,       \* app.js `editingAimId`
  aimDraft,           \* app.js `aimDraft`
  rows,               \* profile rows last drawn by renderProfilesList
  rowsLive,           \* the rows' profile objects are those of `state`
  selOptions,         \* options last drawn by renderProfileSelect
  addDisabled,        \* addProfileBtn.disabled
  lastAlert,          \* the last handler's alert(), or "declined" for a refused confirm()
  aimShared,          \* `aimDraft` is the very object held in state.aimMaps
  draggingMarker,     \* app.js `draggingMarker`: its distance, or None
  uploads,            \* file reads started by aim_upload and not yet settled
  aimImg,             \* the source shown by the #aimImg element
  ltext,              \* load check: the stored text given to loadState
  ldoc,               \* load check: the document loadState returned
  lpass,              \* load check: number of loadState passes done
  calcIn,             \* score functions: the function applied and its argument
  calcOut,            \* score functions: the value returned
  exported            \* the text of the last backup file handed to the browser

vars == <<state, slot, nextUid, editingPracticeId, editingCompId,
          editingAimId, aimDraft, rows, rowsLive, selOptions, addDisabled,
          lastAlert, aimShared, draggingMarker, uploads, aimImg,
          ltext, ldoc, lpass, calcIn, calcOut, exported>>

aimVars == <<aimShared, draggingMarker, uploads, aimImg>>

appVars == <<state, slot, nextUid, editingPracticeId, editingCompId,
             editingAimId, aimDraft, rows, rowsLive, selOptions,
             addDisabled, lastAlert, aimVars>>

loadVars == <<ltext, ldoc, lpass>>

calcVars == <<calcIn, calcOut, exported>>

(***************************************************************************)
(* Bounds of the model and constants of the program.                       *)
(***************************************************************************)
None == 0
Null == -1
Falsy(x) == x <= 0

MaxProfiles == 5          \* "up to 5 profiles"
NumSeedMaps == 6          \* one paper map + DEFAULT_ANIMALS.length
MaxUid == 28              \* largest id uid() hands out in one run
MaxPractice == 2          \* practice sessions held at once
MaxComps == 1             \* competition records held at once
MaxNewMaps == 1           \* aim maps creatable on top of the stored/seeded ones
MaxTime == 1              \* instants new Date() can return
MaxDate == 2              \* instants / days a form's date field can hold
MaxPasses == 2            \* loadState passes in the load check
MaxCoord == 1             \* grid steps across the aim image
MaxRounds == 2            \* rounds in a stored practice list given to practiceTotals
MaxPoints == 4            \* points in a series given to linearSlope
MaxUploads == 1           \* file reads in flight at once
MantissaBits == 6         \* significand width of a Number in the correlation check
MaxPairLen == 3           \* points in each series given to pearson

Times == 1..MaxTime
Dates == 1..MaxDate

(***************************************************************************)
(* Sequence helpers (Array.prototype.filter / map / findIndex / sort).     *)
(***************************************************************************)
\* Array.prototype.findIndex on a predicate over ids: 0 when nothing matches
\* (JavaScript's -1), else the 1-based position of the first match.
FindIndexById(s, id) ==
  IF \E i \in 1..Len(s) : s[i].id = id
  THEN CHOOSE i \in 1..Len(s) : s[i].id = id /\ \A j \in 1..(i-1) : s[j].id # id
  ELSE 0

\* Array.prototype.sort with comparator key(b) - key(a), where keys[i] is the
\* key of s[i]: descending by key and stable (elements with equal keys keep
\* their relative order).
SortDesc(s, keys) ==
  LET n == Len(s)
      rank(i) == 1 + Cardinality({j \in 1..n :
                       \/ keys[j] > keys[i]
                       \/ (keys[j] = keys[i] /\ j < i)})
  IN [k \in 1..n |-> s[CHOOSE i \in 1..n : rank(i) = k]]

Ids(s) == {s[i].id : i \in 1..Len(s)}

(***************************************************************************)
(* Shapes of the document's parts.                                         *)
(*   numeric field  [t, v]: t = "num" a bare number v[1]; "list" the array *)
(*                  v; "other" anything else (absent, string, object)      *)
(*   profile entry  [t, id, name]: t = "obj" an object (id None when it    *)
(*                  has no id); "null" the value null                      *)
(***************************************************************************)
NumBare(n) == [t |-> "num", v |-> <<n>>]
NumList(s) == [t |-> "list", v |-> s]
NumOther == [t |-> "other", v |-> <<>>]

Profile(id, name) == [t |-> "obj", id |-> id, name |-> name]
NullEntry == [t |-> "null", id |-> None, name |-> ""]

\* practice session: bullseye null or {m10, m15}
NoBullseye == [has |-> FALSE, m10 |-> NumOther, m15 |-> NumOther]
PBullseye(m10, m15) == [has |-> TRUE, m10 |-> m10, m15 |-> m15]

\* competition record: bullseye null or a BullseyeResult
NoCBullseye ==
  [has |-> FALSE, format |-> "", m10 |-> NumOther, m15 |-> NumOther, sets |-> <<>>]
CBullseye(format, m10, m15, sets) ==
  [has |-> TRUE, format |-> format, m10 |-> m10, m15 |-> m15, sets |-> sets]

NoAnimal == [has |-> FALSE, scores |-> <<>>]
AnimalRows(scores) == [has |-> TRUE, scores |-> scores]

PracticeSession(id, pid, dt, bull, animal, created, updated) ==
  [id |-> id, profileId |-> pid, datetime |-> dt, bullseye |-> bull,
   animal |-> animal, createdAt |-> created, updatedAt |-> updated]

CompetitionRecord(id, pid, date, round, cat, bull, animal, tens, created, updated) ==
  [id |-> id, profileId |-> pid, date |-> date, round |-> round,
   category |-> cat, bullseye |-> bull, animal |-> animal, tens |-> tens,
   createdAt |-> created, updatedAt |-> updated]

AimMap(id, pid, name, type, kind, key, data, marks) ==
  [id |-> id, profileId |-> pid, name |-> name, type |-> type,
   imageKind |-> kind, builtinKey |-> key, imageData |-> data, marks |-> marks]

NoDraft == AimMap(None, None, "", "", "", "", "", <<>>)

\* one aim mark: the distance it is for and its position on the image
\* (x and y in grid steps instead of fractions of the width and height)
Mark(distance, x, y) == [distance |-> distance, x |-> x, y |-> y]

\* what the #aimImg element shows

NoImage == [kind |-> "none", src |-> ""]

(***************************************************************************)
(* The document and its stored text.                                       *)
(***************************************************************************)
Document(profiles, active, practice, competitions, aimMaps, scoring) ==
  [profiles |-> profiles, activeProfileId |-> active, practice |-> practice,
   competitions |-> competitions, aimMaps |-> aimMaps, settings |-> scoring]

defaultState(pid) ==
  Document(<<Profile(pid, "Archer 1")>>, pid, <<>>, <<>>, <<>>, "nasp3d")

\* A stored or imported text.  kind: "absent" (no slot), "invalid" (not JSON),
\* "null" (the JSON value null), "number" (a JSON number) or "object".  For an
\* object: which top-level keys are present and what they hold; a list-valued
\* key that holds something else has isList = FALSE.
TextObject(hasProfiles, profiles, hasActive, active, practice, competitions, aimMaps, scoring) ==
  [kind |-> "object", hasProfiles |-> hasProfiles, profiles |-> profiles,
   hasActive |-> hasActive, activeProfileId |-> active, practice |-> practice,
   competitions |-> competitions, aimMaps |-> aimMaps, settings |-> scoring]

ListValue(items) == [isList |-> TRUE, items |-> items]
NotAList == [isList |-> FALSE, items |-> <<>>]

TextOfKind(kind) ==
  [kind |-> kind, hasProfiles |-> FALSE, profiles |-> <<>>, hasActive |-> FALSE,
   activeProfileId |-> None, practice |-> NotAList, competitions |-> NotAList,
   aimMaps |-> NotAList, settings |-> ""]

AbsentText == TextOfKind("absent")
InvalidText == TextOfKind("invalid")
NullText == TextOfKind("null")
NumberText == TextOfKind("number")

\* a backup file: the JSON text and the indentation it was written with
BackupFile(text, indent) == [text |-> text, indent |-> indent]
NoExport == [text |-> AbsentText, indent |-> 0]

\* JSON.stringify(state): every key of the document is written, except a key
\* whose value is undefined, which is dropped.
JSONstringify(d) ==
  TextObject(TRUE, d.profiles, d.activeProfileId # None, d.activeProfileId,
             ListValue(d.practice), ListValue(d.competitions),
             ListValue(d.aimMaps), d.settings)

(***************************************************************************)
(* loadState and ensureProfiles.                                           *)
(***************************************************************************)
BackfillProfileId(list, pid) ==
  [i \in 1..Len(list) |->
     IF Falsy(list[i].profileId) THEN [list[i] EXCEPT !.profileId = pid]
     ELSE list[i]]

\* typeof x === 'number' -> [x]; then anything that is not an array -> []
NumberToArray(n) ==
  IF n.t = "num" THEN NumList(n.v)
  ELSE IF n.t = "list" THEN n
  ELSE NumList(<<>>)

MigratePractice(s) ==
  IF s.bullseye.has
  THEN [s EXCEPT !.bullseye.m10 = NumberToArray(@), !.bullseye.m15 = NumberToArray(@)]
  ELSE s

LegacyValue(n) == IF n.t = "num" THEN n.v[1] ELSE 0

\* a migration that files every legacy competition under 'adult'
MigrateCompetitionAdult(c) ==
  IF /\ c.round = "bullseye"
     /\ c.bullseye.has
     /\ (c.bullseye.m10.t = "num" \/ c.bullseye.m15.t = "num")
  THEN [c EXCEPT
          !.bullseye = CBullseye("legacy",
                                 NumList(<<LegacyValue(c.bullseye.m10)>>),
                                 NumList(<<LegacyValue(c.bullseye.m15)>>), <<>>),
          !.category = "adult"]
  ELSE c

MigrateCompetition(c) ==
  IF /\ c.round = "bullseye"
     /\ c.bullseye.has
     /\ (c.bullseye.m10.t = "num" \/ c.bullseye.m15.t = "num")
  THEN [c EXCEPT
          !.bullseye = CBullseye("legacy",
                                 NumList(<<LegacyValue(c.bullseye.m10)>>),
                                 NumList(<<LegacyValue(c.bullseye.m15)>>), <<>>),
          !.category = IF @ = "" THEN "adult" ELSE @]
  ELSE c

\* Object.assign(defaultState(), parsed) and the list coercions; u is the id
\* the call of defaultState() drew.
MergeDefaults(text, u) ==
  Document(IF text.hasProfiles THEN text.profiles ELSE <<Profile(u, "Archer 1")>>,
           IF text.hasActive THEN text.activeProfileId ELSE u,
           IF text.practice.isList THEN text.practice.items ELSE <<>>,
           IF text.competitions.isList THEN text.competitions.items ELSE <<>>,
           IF text.aimMaps.isList THEN text.aimMaps.items ELSE <<>>,
           IF text.settings = "" THEN "nasp3d" ELSE text.settings)

\* "profiles support": the two repairs of loadState / ensureProfiles.
RepairProfiles(d, u) ==
  LET d1 == IF Len(d.profiles) = 0
            THEN [d EXCEPT !.profiles = <<Profile(u, "Archer 1")>>,
                           !.activeProfileId = u]
            ELSE d
  IN IF Falsy(d1.activeProfileId)
     THEN [d1 EXCEPT !.activeProfileId = d1.profiles[1].id]
     ELSE d1

\* st.profiles[0].id is evaluated on a null entry: TypeError
RepairThrows(d) ==
  /\ Len(d.profiles) > 0
  /\ Falsy(d.activeProfileId)
  /\ d.profiles[1].t = "null"

\* st.practice.forEach / st.competitions.forEach of the migration
MigratePracticeList(list) == [i \in 1..Len(list) |-> MigratePractice(list[i])]
MigrateCompetitionList(list) == [i \in 1..Len(list) |-> MigrateCompetition(list[i])]

\* loadState with the slot holding `text`; u+1, u+2, u+3 are the ids uid()
\* hands out during the call.
loadState(text, u) ==
  IF text.kind \in {"absent", "invalid", "null"}
  THEN defaultState(u + 1)
  ELSE LET st == MergeDefaults(text, u + 1)
       IN IF RepairThrows(st)
          THEN defaultState(u + 3)
          ELSE LET r == RepairProfiles(st, u + 2)
                   pid == r.activeProfileId
               IN [r EXCEPT
                     !.practice = MigratePracticeList(BackfillProfileId(@, pid)),
                     !.competitions = MigrateCompetitionList(BackfillProfileId(@, pid)),
                     !.aimMaps = BackfillProfileId(@, pid)]

\* ensureProfiles() on document d; u is the id uid() hands out if called.
ensureProfiles(d, u) ==
  LET r == RepairProfiles(d, u)
      pid == r.activeProfileId
  IN [r EXCEPT !.practice = BackfillProfileId(@, pid),
               !.competitions = BackfillProfileId(@, pid),
               !.aimMaps = BackfillProfileId(@, pid)]

getActiveProfileId(d) ==
  IF ~Falsy(d.activeProfileId) THEN d.activeProfileId
  ELSE IF Len(d.profiles) > 0 THEN d.profiles[1].id
  ELSE Null

(***************************************************************************)
(* Stored texts used as inputs.  Ids 1..9 are ids written in a stored or   *)
(* imported text; uid() hands out ids above FirstUid.                      *)
(***************************************************************************)
FirstUid == 20
\* the counter when the page has first been opened (the script start draws
\* at most one profile id and NumSeedMaps map ids)
StartUid == FirstUid + 1 + NumSeedMaps

pA == Profile(1, "Ann")
pB == Profile(2, "Bo")
FiveProfiles ==
  <<pA, pB, Profile(11, "Cy"), Profile(12, "Di"), Profile(13, "Ed")>>

\* a session of the pre-list schema: bare-number scores, no profileId
OldSession ==
  PracticeSession(3, None, 1, PBullseye(NumBare(30), NumBare(20)), NoAnimal, 1, 1)
\* a current session owned by profile 2, no 15 m block stored
NewSession ==
  PracticeSession(4, 2, 2, PBullseye(NumList(<<40, 35>>), NumOther), NoAnimal, 1, 1)
\* a competition of the pre-format schema, no category, no profileId
OldComp ==
  CompetitionRecord(5, None, 1, "bullseye", "",
                    CBullseye("", NumBare(250), NumBare(240), <<>>), NoAnimal, 0, 1, 1)
\* pre-format schema with one distance only and a category
OldComp10 ==
  CompetitionRecord(5, 1, 1, "bullseye", "junior",
                    CBullseye("", NumBare(250), NumOther, <<>>), NoAnimal, 0, 1, 1)
CubComp ==
  CompetitionRecord(6, 2, 2, "bullseye", "cub",
                    CBullseye("4x10", NumList(<<20, 18, 19, 20>>), NumOther, <<>>),
                    NoAnimal, 0, 1, 1)
StoredMap == AimMap(7, None, "Paper target", "paper", "builtin", "paper", "", <<>>)
OwnedMap == AimMap(8, 2, "Buck", "animal", "builtin", "buck", "", <<>>)

LoadProfileChoices ==
  { [has |-> FALSE, v |-> <<>>], [has |-> TRUE, v |-> <<>>],
    [has |-> TRUE, v |-> <<pA>>], [has |-> TRUE, v |-> <<pA, pB>>],
    [has |-> TRUE, v |-> <<NullEntry>>], [has |-> TRUE, v |-> <<pA, NullEntry>>],
    [has |-> TRUE, v |-> <<Profile(None, "Cy")>>] }

LoadActiveChoices ==
  { [has |-> FALSE, v |-> None], [has |-> TRUE, v |-> Null],
    [has |-> TRUE, v |-> 1], [has |-> TRUE, v |-> 9] }

LoadInputs ==
  {AbsentText, InvalidText, NullText, NumberText} \cup
  { TextObject(p.has, p.v, a.has, a.v, pr, co, am, sc) :
      p \in LoadProfileChoices, a \in LoadActiveChoices,
      pr \in {NotAList, ListValue(<<OldSession, NewSession>>), ListValue(<<NewSession>>)},
      co \in {NotAList, ListValue(<<OldComp>>), ListValue(<<OldComp10, CubComp>>)},
      am \in {NotAList, ListValue(<<StoredMap, OwnedMap>>)},
      sc \in {"", "custom"} }

EmptyDoc == Document(<<>>, None, <<>>, <<>>, <<>>, "")

(***************************************************************************)
(* Helpers shared by the handlers.                                         *)
(***************************************************************************)
Max(S) == CHOOSE x \in S : \A y \in S : y <= x
Min2(a, b) == IF a < b THEN a ELSE b

AllIds(d) ==
  Ids(d.profiles) \cup {d.activeProfileId}
    \cup Ids(d.practice) \cup Ids(d.competitions) \cup Ids(d.aimMaps)
    \cup {d.practice[i].profileId : i \in 1..Len(d.practice)}
    \cup {d.competitions[i].profileId : i \in 1..Len(d.competitions)}
    \cup {d.aimMaps[i].profileId : i \in 1..Len(d.aimMaps)}

\* the uid() counter after a handler that left document d behind
UidAfter(d) == Max({nextUid} \cup AllIds(d))

practiceForActive(d) ==
  LET pid == getActiveProfileId(d)
      mine(r) == (IF Falsy(r.profileId) THEN pid ELSE r.profileId) = pid
  IN SelectSeq(d.practice, mine)

competitionsForActive(d) ==
  LET pid == getActiveProfileId(d)
      mine(r) == (IF Falsy(r.profileId) THEN pid ELSE r.profileId) = pid
  IN SelectSeq(d.competitions, mine)

aimMapsForActive(d) ==
  LET pid == getActiveProfileId(d)
      mine(r) == (IF Falsy(r.profileId) THEN pid ELSE r.profileId) = pid
  IN SelectSeq(d.aimMaps, mine)

\* state.profiles.slice(0,5) as drawn by renderProfileSelect / renderProfilesList
DrawnProfiles(d) ==
  [i \in 1..Min2(Len(d.profiles), MaxProfiles) |-> d.profiles[i].id]

clamp(n, lo, hi) == IF n < lo THEN lo ELSE IF n > hi THEN hi ELSE n

\* Values Number(v) can give that are not finite: NaN (v is not numeric text,
\* or undefined) and Infinity.  Every other integer stands for itself.
NaNValue == 1000000
InfinityValue == 1000001
NumberIsFinite(n) == n \notin {NaNValue, InfinityValue}

\* safeNumber with the isFinite test left out
safeNumberUnchecked(v) == v

safeNumber(v) == IF NumberIsFinite(v) THEN v ELSE 0

(***************************************************************************)
(* Script start: loadState, ensureProfiles, init().                        *)
(***************************************************************************)
SeedMaps(u) ==
  <<AimMap(u + 1, None, "Paper target", "paper", "builtin", "paper", "", <<>>),
    AimMap(u + 2, None, "Buck", "animal", "builtin", "buck", "", <<>>),
    AimMap(u + 3, None, "Warthog", "animal", "builtin", "warthog", "", <<>>),
    AimMap(u + 4, None, "Bushpig", "animal", "builtin", "bushpig", "", <<>>),
    AimMap(u + 5, None, "Baboon", "animal", "builtin", "baboon", "", <<>>),
    AimMap(u + 6, None, "Porcupine", "animal", "builtin", "porcupine", "", <<>>)>>

\* defaultAimMapsIfEmpty: the document it leaves
defaultAimMapsIfEmpty(d, u) ==
  IF Len(d.aimMaps) > 0 THEN d ELSE [d EXCEPT !.aimMaps = SeedMaps(u)]

\* the document after `let state = loadState(); ensureProfiles(); init()`
StartDoc(text, u) ==
  LET loaded == ensureProfiles(loadState(text, u), u + 4)
      drawn == ensureProfiles(loaded, u + 5)
  IN defaultAimMapsIfEmpty(drawn, Max({u} \cup AllIds(drawn)))

\* the slot after the script start: init() saves only when it seeded aim maps
StartSlot(text, u) ==
  LET drawn == ensureProfiles(ensureProfiles(loadState(text, u), u + 4), u + 5)
  IN IF Len(drawn.aimMaps) > 0 THEN text ELSE JSONstringify(StartDoc(text, u))

Started(text, u) ==
  /\ state' = StartDoc(text, u)
  /\ slot' = StartSlot(text, u)
  /\ nextUid' = Max({u} \cup AllIds(StartDoc(text, u)))
  /\ editingPracticeId' = None
  /\ editingCompId' = None
  /\ editingAimId' = None
  /\ aimDraft' = NoDraft
  /\ rows' = DrawnProfiles(StartDoc(text, u))
  /\ rowsLive' = TRUE
  /\ selOptions' = DrawnProfiles(StartDoc(text, u))
  /\ addDisabled' = (Len(StartDoc(text, u).profiles) >= MaxProfiles)
  /\ lastAlert' = "none"
  /\ aimShared' = FALSE
  /\ draggingMarker' = None
  /\ uploads' = <<>>
  /\ aimImg' = NoImage

\* the page is loaded again: the script runs on the stored text
Reload ==
  /\ UidAfter(StartDoc(slot, nextUid)) <= MaxUid
  /\ Started(slot, nextUid)
  /\ UNCHANGED <<loadVars, calcVars>>

(***************************************************************************)
(* Practice form.  A form filling holds the date field (None when empty),  *)
(* the two check boxes and the numbers typed into the score inputs.        *)
(***************************************************************************)
PracticeForms ==
  { [date |-> None, bull |-> TRUE, m10 |-> <<0>>, m15 |-> <<0>>,
     animal |-> FALSE, scores |-> <<>>] } \cup
  { [date |-> d, bull |-> TRUE, m10 |-> <<30, 70, NaNValue>>, m15 |-> <<>>,
     animal |-> FALSE, scores |-> <<>>] : d \in Dates \ {MaxDate} } \cup
  { [date |-> MaxDate, bull |-> FALSE, m10 |-> <<>>, m15 |-> <<>>,
     animal |-> TRUE, scores |-> <<8, 10, NaNValue, 5, 1200, 0>>] }

collectPracticeRounds(inputs) ==
  [i \in 1..Len(inputs) |-> clamp(safeNumber(inputs[i]), 0, 50)]

AnimalScores(inputs) ==
  [i \in 1..Len(inputs) |-> clamp(safeNumber(inputs[i]), 0, 999)]

\* the `session` object the submit handler builds (createdAt not yet set)
BuildSession(d, id, f, now) ==
  PracticeSession(id, getActiveProfileId(d), f.date,
    IF f.bull
    THEN PBullseye(NumList(collectPracticeRounds(f.m10)),
                   NumList(collectPracticeRounds(f.m15)))
    ELSE NoBullseye,
    IF f.animal THEN AnimalRows(AnimalScores(f.scores)) ELSE NoAnimal,
    None, now)

DatetimeOf(r) == r.datetime

\* the submit handler without its sort: the list as the edit/create branch
\* leaves it
SubmittedPracticeUnsorted(d, editing, f, now, u) ==
  LET idx == FindIndexById(d.practice, editing)
  IN IF editing # None
     THEN IF idx > 0
          THEN [d.practice EXCEPT ![idx] = BuildSession(d, editing, f, now)]
          ELSE d.practice
     ELSE Append(d.practice, [BuildSession(d, u, f, now) EXCEPT !.createdAt = now])

\* state.practice after the edit/create branch and the sort
SubmittedPractice(d, editing, f, now, u) ==
  LET idx == FindIndexById(d.practice, editing)
      list == IF editing # None
              THEN IF idx > 0
                   THEN [d.practice EXCEPT ![idx] = BuildSession(d, editing, f, now)]
                   ELSE d.practice
              ELSE Append(d.practice,
                          [BuildSession(d, u, f, now) EXCEPT !.createdAt = now])
  IN SortDesc(list, [i \in 1..Len(list) |-> DatetimeOf(list[i])])

PracticeSubmitOf(f, now) ==
    LET d == [state EXCEPT !.practice =
                SubmittedPractice(state, editingPracticeId, f, now, nextUid + 1)]
    IN /\ editingPracticeId = None => Len(state.practice) < MaxPractice
       /\ UidAfter(d) <= MaxUid
       /\ IF f.date = None
          THEN UNCHANGED <<state, slot, nextUid, editingPracticeId>>
          ELSE /\ state' = d
               /\ slot' = JSONstringify(d)
               /\ nextUid' = UidAfter(d)
               /\ editingPracticeId' = None
       /\ lastAlert' = "none"
       /\ UNCHANGED <<editingCompId, editingAimId, aimDraft, rows, rowsLive,
                      selOptions, addDisabled, loadVars, calcVars, aimVars>>

PracticeSubmit == \E f \in PracticeForms, now \in Times : PracticeSubmitOf(f, now)

editPractice ==
  \E i \in 1..Len(practiceForActive(state)) :
    /\ editingPracticeId' = practiceForActive(state)[i].id
    /\ lastAlert' = "none"
    /\ UNCHANGED <<state, slot, nextUid, editingCompId, editingAimId, aimDraft,
                   rows, rowsLive, selOptions, addDisabled, loadVars, calcVars, aimVars>>

resetPracticeForm ==
  /\ editingPracticeId # None
  /\ editingPracticeId' = None
  /\ lastAlert' = "none"
  /\ UNCHANGED <<state, slot, nextUid, editingCompId, editingAimId, aimDraft,
                 rows, rowsLive, selOptions, addDisabled, loadVars, calcVars, aimVars>>

deletePracticeOf(i, ok) ==
    LET id == practiceForActive(state)[i].id
        keep(r) == r.id # id
        d == [state EXCEPT !.practice = SelectSeq(@, keep)]
    IN /\ IF ok
          THEN /\ state' = d
               /\ slot' = JSONstringify(d)
               /\ editingPracticeId' =
                    IF editingPracticeId = id THEN None ELSE editingPracticeId
          ELSE UNCHANGED <<state, slot, editingPracticeId>>
       /\ lastAlert' = IF ok THEN "none" ELSE "declined"
       /\ UNCHANGED <<nextUid, editingCompId, editingAimId, aimDraft, rows,
                      rowsLive, selOptions, addDisabled, loadVars, calcVars, aimVars>>

deletePractice ==
  \E i \in 1..Len(practiceForActive(state)), ok \in BOOLEAN : deletePracticeOf(i, ok)

(***************************************************************************)
(* Competition form.                                                       *)
(***************************************************************************)
CompAnimalInputs == <<10, 8, 5, NaNValue, 1000, 8>>

CompForms ==
  { [date |-> None, event |-> TRUE, round |-> "bullseye", category |-> "adult",
     c10 |-> <<>>, sets |-> <<>>, scores |-> <<>>, tens |-> 0],
    [date |-> 1, event |-> FALSE, round |-> "bullseye", category |-> "adult",
     c10 |-> <<>>, sets |-> <<>>, scores |-> <<>>, tens |-> 0] } \cup
  { [date |-> d, event |-> TRUE, round |-> "bullseye", category |-> "cub",
     c10 |-> <<20, NaNValue, -5, 60>>, sets |-> <<>>, scores |-> <<>>, tens |-> 3]
       : d \in Dates } \cup
  { [date |-> MaxDate, event |-> TRUE, round |-> "bullseye", category |-> "senior",
     c10 |-> <<>>,
     sets |-> << [m10 |-> <<9, 9, 8>>, m15 |-> <<7, 8, 9>>],
                 [m10 |-> <<9, 9, 8>>, m15 |-> <<7, 8, 9>>] >>,
     scores |-> <<>>, tens |-> 1200],
    [date |-> 1, event |-> TRUE, round |-> "animal", category |-> "adult",
     c10 |-> <<>>, sets |-> <<>>, scores |-> CompAnimalInputs, tens |-> InfinityValue] }

CompCategories == {"cub", "beginner", "junior", "senior", "adult"}

\* the score inputs the form shows for category cat, each holding "0":
\* four .c10_round inputs, or three .cset10 and three .cset15 per set
renderCompBullseyeDynamic(cat) ==
  IF cat \in {"cub", "beginner"}
  THEN [c10 |-> <<0, 0, 0, 0>>, sets |-> <<>>]
  ELSE [c10 |-> <<>>,
        sets |-> << [m10 |-> <<0, 0, 0>>, m15 |-> <<0, 0, 0>>],
                    [m10 |-> <<0, 0, 0>>, m15 |-> <<0, 0, 0>>] >>]

\* a collection that takes only 'cub' for the four-round format
collectCompetitionBullseyeCub(f) ==
  IF f.category \in {"cub"}
  THEN CBullseye("4x10", NumList(collectPracticeRounds(f.c10)), NumOther, <<>>)
  ELSE CBullseye("2sets", NumOther, NumOther,
         [k \in 1..Len(f.sets) |->
            [m10 |-> collectPracticeRounds(f.sets[k].m10),
             m15 |-> collectPracticeRounds(f.sets[k].m15)]])

collectCompetitionBullseye(f) ==
  IF f.category \in {"cub", "beginner"}
  THEN CBullseye("4x10", NumList(collectPracticeRounds(f.c10)), NumOther, <<>>)
  ELSE CBullseye("2sets", NumOther, NumOther,
         [k \in 1..Len(f.sets) |->
            [m10 |-> collectPracticeRounds(f.sets[k].m10),
             m15 |-> collectPracticeRounds(f.sets[k].m15)]])

\* the `comp` object the submit handler builds (createdAt not yet set)
BuildComp(d, id, f, now) ==
  CompetitionRecord(id, getActiveProfileId(d), f.date, f.round,
    IF f.round = "bullseye" THEN f.category ELSE "",
    IF f.round = "bullseye" THEN collectCompetitionBullseye(f) ELSE NoCBullseye,
    IF f.round = "bullseye" THEN NoAnimal ELSE AnimalRows(AnimalScores(f.scores)),
    clamp(safeNumber(f.tens), 0, 999), None, now)

DateOf(r) == r.date

SubmittedComps(d, editing, f, now, u) ==
  LET idx == FindIndexById(d.competitions, editing)
      list == IF editing # None
              THEN IF idx > 0
                   THEN [d.competitions EXCEPT ![idx] = BuildComp(d, editing, f, now)]
                   ELSE d.competitions
              ELSE Append(d.competitions,
                          [BuildComp(d, u, f, now) EXCEPT !.createdAt = now])
  IN SortDesc(list, [i \in 1..Len(list) |-> DateOf(list[i])])

CompSubmitOf(f, now) ==
    LET d == [state EXCEPT !.competitions =
                SubmittedComps(state, editingCompId, f, now, nextUid + 1)]
    IN /\ editingCompId = None => Len(state.competitions) < MaxComps
       /\ UidAfter(d) <= MaxUid
       /\ IF f.date = None \/ ~f.event
          THEN UNCHANGED <<state, slot, nextUid, editingCompId>>
          ELSE /\ state' = d
               /\ slot' = JSONstringify(d)
               /\ nextUid' = UidAfter(d)
               /\ editingCompId' = None
       /\ lastAlert' = "none"
       /\ UNCHANGED <<editingPracticeId, editingAimId, aimDraft, rows, rowsLive,
                      selOptions, addDisabled, loadVars, calcVars, aimVars>>

CompSubmit == \E f \in CompForms, now \in Times : CompSubmitOf(f, now)

editCompetition ==
  \E i \in 1..Len(competitionsForActive(state)) :
    /\ editingCompId' = competitionsForActive(state)[i].id
    /\ lastAlert' = "none"
    /\ UNCHANGED <<state, slot, nextUid, editingPracticeId, editingAimId,
                   aimDraft, rows, rowsLive, selOptions, addDisabled, loadVars, calcVars, aimVars>>

resetCompForm ==
  /\ editingCompId # None
  /\ editingCompId' = None
  /\ lastAlert' = "none"
  /\ UNCHANGED <<state, slot, nextUid, editingPracticeId, editingAimId,
                 aimDraft, rows, rowsLive, selOptions, addDisabled, loadVars, calcVars, aimVars>>

deleteCompetitionOf(i, ok) ==
    LET id == competitionsForActive(state)[i].id
        keep(r) == r.id # id
        d == [state EXCEPT !.competitions = SelectSeq(@, keep)]
    IN /\ IF ok
          THEN /\ state' = d
               /\ slot' = JSONstringify(d)
               /\ editingCompId' = IF editingCompId = id THEN None ELSE editingCompId
          ELSE UNCHANGED <<state, slot, editingCompId>>
       /\ lastAlert' = IF ok THEN "none" ELSE "declined"
       /\ UNCHANGED <<nextUid, editingPracticeId, editingAimId, aimDraft, rows,
                      rowsLive, selOptions, addDisabled, loadVars, calcVars,
                      aimVars>>

deleteCompetition ==
  \E i \in 1..Len(competitionsForActive(state)), ok \in BOOLEAN :
    deleteCompetitionOf(i, ok)

(***************************************************************************)
(* Profile UI.  A row of the profiles list holds the profile object it was *)
(* drawn for; after import or wipe replaced `state` the rows on screen     *)
(* still hold the objects of the previous document (rowsLive = FALSE).     *)
(***************************************************************************)
ProfileNames == {"", "Dee"}

\* `aimDraft` once the document is d: while the draft is the object held in
\* state.aimMaps (after aim_save) a write to that object shows in both
SharedDraft(d) ==
  IF aimShared /\ FindIndexById(d.aimMaps, editingAimId) > 0
  THEN d.aimMaps[FindIndexById(d.aimMaps, editingAimId)]
  ELSE aimDraft

\* renderProfilesList() (and renderProfileSelect() when withSelect) at the end
\* of a handler that left document d: ensureProfiles, then redraw
Redrawn(d, withSelect) ==
  LET e == ensureProfiles(d, nextUid + 1)
  IN /\ state' = e
     /\ nextUid' = UidAfter(e)
     /\ rows' = DrawnProfiles(e)
     /\ rowsLive' = TRUE
     /\ addDisabled' = (Len(e.profiles) >= MaxProfiles)
     /\ selOptions' = IF withSelect THEN DrawnProfiles(e) ELSE selOptions
     /\ aimDraft' = SharedDraft(e)

addProfileOf(name) ==
    LET d0 == ensureProfiles(state, nextUid + 1)
        d1 == [d0 EXCEPT !.profiles = Append(@, Profile(UidAfter(d0) + 1, name))]
    IN /\ ~addDisabled
       /\ UidAfter(d0) <= MaxUid
       /\ IF Len(d0.profiles) >= MaxProfiles
          THEN /\ state' = d0
               /\ nextUid' = UidAfter(d0)
               /\ lastAlert' = "max-profiles"
               /\ aimDraft' = SharedDraft(d0)
               /\ UNCHANGED <<slot, rows, rowsLive, selOptions, addDisabled>>
          ELSE IF name = ""
          THEN /\ state' = d0
               /\ nextUid' = UidAfter(d0)
               /\ lastAlert' = "enter-name"
               /\ aimDraft' = SharedDraft(d0)
               /\ UNCHANGED <<slot, rows, rowsLive, selOptions, addDisabled>>
          ELSE /\ UidAfter(d1) <= MaxUid
               /\ slot' = JSONstringify(d1)
               /\ Redrawn(d1, TRUE)
               /\ lastAlert' = "none"
       /\ UNCHANGED <<editingPracticeId, editingCompId, editingAimId,
                      loadVars, calcVars, aimVars>>

addProfile == \E name \in ProfileNames : addProfileOf(name)

\* p.name = ... on the row's profile object: it is part of `state` only while
\* the rows are live
Renamed(d, i, name) ==
  IF rowsLive
  THEN [d EXCEPT !.profiles[i].name = IF name = "" THEN "Archer" ELSE name]
  ELSE d

renameProfile ==
  \E i \in 1..Len(rows), name \in ProfileNames :
    LET d == Renamed(state, i, name)
    IN /\ UidAfter(ensureProfiles(d, nextUid + 1)) <= MaxUid
       /\ slot' = JSONstringify(d)
       /\ Redrawn(d, TRUE)
       /\ lastAlert' = "none"
       /\ UNCHANGED <<editingPracticeId, editingCompId, editingAimId,
                      loadVars, calcVars, aimVars>>

useProfile ==
  \E i \in 1..Len(rows) :
    LET d == [state EXCEPT !.activeProfileId = rows[i]]
    IN /\ UidAfter(ensureProfiles(d, nextUid + 1)) <= MaxUid
       /\ slot' = JSONstringify(d)
       /\ Redrawn(d, TRUE)
       /\ lastAlert' = "none"
       /\ UNCHANGED <<editingPracticeId, editingCompId, editingAimId,
                      loadVars, calcVars, aimVars>>

\* the profileSelect drop-down: change
selectProfile ==
  \E i \in 1..Len(selOptions) :
    LET d == [state EXCEPT !.activeProfileId = selOptions[i]]
    IN /\ UidAfter(ensureProfiles(d, nextUid + 1)) <= MaxUid
       /\ slot' = JSONstringify(d)
       /\ Redrawn(d, FALSE)
       /\ lastAlert' = "none"
       /\ UNCHANGED <<editingPracticeId, editingCompId, editingAimId,
                      loadVars, calcVars, aimVars>>

\* the document after the delete handler's filters, for the row's profile id
ProfileDeleted(d, pid) ==
  LET keepRec(r) == r.profileId # pid
      keepProf(x) == x.id # pid
      left == SelectSeq(d.profiles, keepProf)
  IN [d EXCEPT !.practice = SelectSeq(@, keepRec),
               !.competitions = SelectSeq(@, keepRec),
               !.aimMaps = SelectSeq(@, keepRec),
               !.profiles = left,
               !.activeProfileId = IF @ = pid THEN left[1].id ELSE @]

deleteProfileOf(i, ok) ==
    LET d == ProfileDeleted(state, rows[i])
    IN /\ IF Len(state.profiles) <= 1
          THEN /\ lastAlert' = "need-one-profile"
               /\ UNCHANGED <<state, slot, nextUid, rows, rowsLive, selOptions,
                              addDisabled, aimDraft>>
          ELSE IF ~ok
          THEN /\ lastAlert' = "declined"
               /\ UNCHANGED <<state, slot, nextUid, rows, rowsLive, selOptions,
                              addDisabled, aimDraft>>
          ELSE /\ slot' = JSONstringify(d)
               /\ Redrawn(d, TRUE)
               /\ lastAlert' = "none"
       /\ UNCHANGED <<editingPracticeId, editingCompId, editingAimId,
                      loadVars, calcVars, aimVars>>

deleteProfile == \E i \in 1..Len(rows), ok \in BOOLEAN : deleteProfileOf(i, ok)

(***************************************************************************)
(* Aim maps, settings, import, wipe.                                       *)
(***************************************************************************)
\* deepClone(obj) = JSON.parse(JSON.stringify(obj)) of an aim map: the same
\* fields in a new object (a key holding undefined is a missing key: None)
deepClone(m) ==
  AimMap(m.id, m.profileId, m.name, m.type, m.imageKind, m.builtinKey,
         m.imageData, [i \in 1..Len(m.marks) |->
                         Mark(m.marks[i].distance, m.marks[i].x, m.marks[i].y)])

\* refreshAimImage: imageData || getBuiltinImageForMap(draft) || the paper svg
ImageOf(m) ==
  IF m.imageData # "" THEN [kind |-> "upload", src |-> m.imageData]
  ELSE IF m.imageKind = "builtin" THEN [kind |-> "builtin", src |-> m.builtinKey]
  ELSE [kind |-> "builtin", src |-> "paper"]

\* newAimPaper / newAimAnimal: unshift, save, open the editor on the new map
NewAim(m) ==
  LET d == [state EXCEPT !.aimMaps = <<m>> \o @]
  IN /\ Len(state.aimMaps) < NumSeedMaps + MaxNewMaps
     /\ m.id <= MaxUid
     /\ state' = d
     /\ slot' = JSONstringify(d)
     /\ nextUid' = m.id
     /\ editingAimId' = m.id
     /\ aimDraft' = deepClone(m)
     /\ aimShared' = FALSE
     /\ aimImg' = ImageOf(m)
     /\ lastAlert' = "none"
     /\ UNCHANGED <<editingPracticeId, editingCompId, rows, rowsLive,
                    selOptions, addDisabled, draggingMarker, uploads,
                    loadVars, calcVars>>

newAimPaper ==
  NewAim(AimMap(nextUid + 1, None, "New paper aim map", "paper", "builtin",
                "paper", "", <<>>))

newAimAnimal ==
  NewAim(AimMap(nextUid + 1, None, "New animal aim map", "animal", "builtin",
                "deer", "", <<>>))

closeAimEditor ==
  /\ aimDraft # NoDraft
  /\ editingAimId' = None
  /\ aimDraft' = NoDraft
  /\ aimShared' = FALSE
  /\ draggingMarker' = None
  /\ lastAlert' = "none"
  /\ UNCHANGED <<state, slot, nextUid, editingPracticeId, editingCompId, rows,
                 rowsLive, selOptions, addDisabled, uploads, aimImg,
                 loadVars, calcVars>>

(***************************************************************************)
(* The aim editor.  Its handlers work on `aimDraft`; aim_save stores the   *)
(* draft object itself in state.aimMaps, so from then on a write to the    *)
(* draft is a write to the document (aimShared).                           *)
(***************************************************************************)
PAPER_DISTANCES == {10, 15}
ANIMAL_DISTANCES == 10..15

\* the options of the #aim_distance select while draft m is open
DistancesOf(m) == IF m.type = "paper" THEN PAPER_DISTANCES ELSE ANIMAL_DISTANCES

\* positions a click or a pointer move can give after clamp(.., 0, 1)
Coords == 0..MaxCoord

AimNames == {"", "Range A"}
UploadFiles == {"photo"}

\* an assignment to a field of the draft object, leaving it as m
DraftWritten(m) ==
  /\ aimDraft' = m
  /\ state' = IF aimShared /\ FindIndexById(state.aimMaps, editingAimId) > 0
              THEN [state EXCEPT
                      !.aimMaps[FindIndexById(state.aimMaps, editingAimId)] = m]
              ELSE state

openAimEditor ==
  \E i \in 1..Len(state.aimMaps) :
    /\ editingAimId' = state.aimMaps[i].id
    /\ aimDraft' = deepClone(state.aimMaps[i])
    /\ aimShared' = FALSE
    /\ aimImg' = ImageOf(state.aimMaps[i])
    /\ lastAlert' = "none"
    /\ UNCHANGED <<state, slot, nextUid, editingPracticeId, editingCompId, rows,
                   rowsLive, selOptions, addDisabled, draggingMarker, uploads,
                   loadVars, calcVars>>

markForDistance(marks, distance) ==
  IF \E i \in 1..Len(marks) : marks[i].distance = distance
  THEN CHOOSE i \in 1..Len(marks) :
         marks[i].distance = distance /\ \A j \in 1..(i-1) : marks[j].distance # distance
  ELSE 0

clearMark(marks, distance) == SelectSeq(marks, LAMBDA m : m.distance # distance)

\* setMark without the filter: the new mark is pushed next to the old one
setMarkKeeping(marks, distance, x, y) == Append(marks, Mark(distance, x, y))

setMark(marks, distance, x, y) ==
  Append(clearMark(marks, distance), Mark(distance, x, y))

\* a click on the overlay with `distance` selected
aimOverlayClickOf(distance, x, y) ==
  /\ aimDraft # NoDraft
  /\ draggingMarker = None
  /\ DraftWritten([aimDraft EXCEPT !.marks = setMark(@, distance, x, y)])
  /\ lastAlert' = "none"
  /\ UNCHANGED <<slot, nextUid, editingPracticeId, editingCompId, editingAimId,
                 rows, rowsLive, selOptions, addDisabled, loadVars, calcVars,
                 aimVars>>

aimOverlayClick ==
  \E distance \in DistancesOf(aimDraft), x \in Coords, y \in Coords :
    aimOverlayClickOf(distance, x, y)

aimClearDistanceOf(distance) ==
  /\ aimDraft # NoDraft
  /\ DraftWritten([aimDraft EXCEPT !.marks = clearMark(@, distance)])
  /\ lastAlert' = "none"
  /\ UNCHANGED <<slot, nextUid, editingPracticeId, editingCompId, editingAimId,
                 rows, rowsLive, selOptions, addDisabled, loadVars, calcVars,
                 aimVars>>

aimClearDistance == \E distance \in DistancesOf(aimDraft) : aimClearDistanceOf(distance)

\* pointerdown on the marker drawn for a mark of the draft
markerPointerDown ==
  \E i \in 1..Len(aimDraft.marks) :
    /\ aimDraft # NoDraft
    /\ draggingMarker' = aimDraft.marks[i].distance
    /\ lastAlert' = "none"
    /\ UNCHANGED <<state, slot, nextUid, editingPracticeId, editingCompId,
                   editingAimId, aimDraft, rows, rowsLive, selOptions,
                   addDisabled, aimShared, uploads, aimImg, loadVars, calcVars>>

\* pointermove on the marker being dragged: mm.x = x; mm.y = y
markerPointerMoveOf(x, y) ==
  LET i == markForDistance(aimDraft.marks, draggingMarker)
  IN /\ aimDraft # NoDraft
     /\ draggingMarker # None
     /\ DraftWritten(IF i = 0 THEN aimDraft
                     ELSE [aimDraft EXCEPT !.marks[i].x = x, !.marks[i].y = y])
     /\ lastAlert' = "none"
     /\ UNCHANGED <<slot, nextUid, editingPracticeId, editingCompId,
                    editingAimId, rows, rowsLive, selOptions, addDisabled,
                    loadVars, calcVars, aimVars>>

markerPointerMove == \E x \in Coords, y \in Coords : markerPointerMoveOf(x, y)

markerPointerUp ==
  /\ draggingMarker # None
  /\ draggingMarker' = None
  /\ lastAlert' = "none"
  /\ UNCHANGED <<state, slot, nextUid, editingPracticeId, editingCompId,
                 editingAimId, aimDraft, rows, rowsLive, selOptions, addDisabled,
                 aimShared, uploads, aimImg, loadVars, calcVars>>

\* an aim_delete handler that filters and saves before it asks
aimDeleteUnasked(ok) ==
  LET d == [state EXCEPT
              !.aimMaps = SelectSeq(@, LAMBDA m : m.id # editingAimId)]
  IN /\ aimDraft # NoDraft
     /\ state' = d
     /\ slot' = JSONstringify(d)
     /\ IF ok
        THEN /\ editingAimId' = None
             /\ aimDraft' = NoDraft
             /\ aimShared' = FALSE
             /\ draggingMarker' = None
        ELSE UNCHANGED <<editingAimId, aimDraft, aimShared, draggingMarker>>
     /\ lastAlert' = IF ok THEN "none" ELSE "declined"
     /\ UNCHANGED <<nextUid, editingPracticeId, editingCompId, rows, rowsLive,
                    selOptions, addDisabled, uploads, aimImg, loadVars, calcVars>>

\* the aim_delete button; ok is the answer given to confirm()
aimDeleteOf(ok) ==
  LET d == [state EXCEPT
              !.aimMaps = SelectSeq(@, LAMBDA m : m.id # editingAimId)]
  IN /\ aimDraft # NoDraft
     /\ IF ok
        THEN /\ state' = d
             /\ slot' = JSONstringify(d)
             /\ editingAimId' = None
             /\ aimDraft' = NoDraft
             /\ aimShared' = FALSE
             /\ draggingMarker' = None
        ELSE UNCHANGED <<state, slot, editingAimId, aimDraft, aimShared,
                        draggingMarker>>
     /\ lastAlert' = IF ok THEN "none" ELSE "declined"
     /\ UNCHANGED <<nextUid, editingPracticeId, editingCompId, rows, rowsLive,
                    selOptions, addDisabled, uploads, aimImg, loadVars, calcVars>>

aimDelete == \E ok \in BOOLEAN : aimDeleteOf(ok)

\* the aim_save button: state.aimMaps[idx] = aimDraft, then saveState()
aimSaveOf(name) ==
  LET m == [aimDraft EXCEPT !.name = IF name = "" THEN @ ELSE name]
      idx == FindIndexById(state.aimMaps, editingAimId)
      d == IF idx > 0 THEN [state EXCEPT !.aimMaps[idx] = m] ELSE state
  IN /\ aimDraft # NoDraft
     /\ aimDraft' = m
     /\ state' = d
     /\ slot' = JSONstringify(d)
     /\ aimShared' = (aimShared \/ idx > 0)
     /\ lastAlert' = "none"
     /\ UNCHANGED <<nextUid, editingPracticeId, editingCompId, editingAimId,
                    rows, rowsLive, selOptions, addDisabled, draggingMarker,
                    uploads, aimImg, loadVars, calcVars>>

aimSave == \E name \in AimNames : aimSaveOf(name)

\* aim_upload change: the handler starts the file read and awaits it
aimUploadOf(file) ==
  /\ aimDraft # NoDraft
  /\ Len(uploads) < MaxUploads
  /\ uploads' = Append(uploads, [file |-> file, map |-> editingAimId])
  /\ lastAlert' = "none"
  /\ UNCHANGED <<state, slot, nextUid, editingPracticeId, editingCompId,
                 editingAimId, aimDraft, rows, rowsLive, selOptions, addDisabled,
                 aimShared, draggingMarker, aimImg, loadVars, calcVars>>

aimUpload == \E file \in UploadFiles : aimUploadOf(file)

\* the draft after the three assignments that follow the await
Uploaded(m, file) ==
  [m EXCEPT !.imageData = file, !.imageKind = "upload", !.builtinKey = ""]

\* an upload handler that shows the picked file before it has been read
UploadedEarly(m, file, read) == Uploaded(m, file)

\* the draft once the read of `file` has settled: resolved (read) or rejected
UploadedWhenRead(m, file, read) == IF read THEN Uploaded(m, file) ELSE m

\* the k-th pending read settles; the rest of the handler runs when it
\* resolved (and throws at once when no draft is open any more: the
\* TypeError of `aimDraft.imageData = dataUrl` on null is kept in lastAlert)
readSettledOf(k, read) ==
  LET m == UploadedWhenRead(aimDraft, uploads[k].file, read)
  IN /\ uploads' = [i \in 1..(Len(uploads) - 1) |->
                      IF i < k THEN uploads[i] ELSE uploads[i + 1]]
     /\ IF aimDraft = NoDraft
        THEN UNCHANGED <<state, aimDraft, aimImg>>
        ELSE /\ DraftWritten(m)
             /\ aimImg' = IF read THEN ImageOf(m) ELSE aimImg
     /\ lastAlert' = IF read /\ aimDraft = NoDraft THEN "TypeError" ELSE "none"
     /\ UNCHANGED <<slot, nextUid, editingPracticeId, editingCompId,
                    editingAimId, rows, rowsLive, selOptions, addDisabled,
                    aimShared, draggingMarker, loadVars, calcVars>>

readSettled == \E k \in 1..Len(uploads), read \in BOOLEAN : readSettledOf(k, read)

\* an export that offers the text found in the slot
exportDataStored(d, stored) == BackupFile(stored, 2)

\* `data` and the file made of it
exportData(d, stored) == BackupFile(JSONstringify(d), 2)

\* the export button: JSON.stringify(state, null, 2) offered as a download
exportBtn ==
  /\ exported' = exportData(state, slot)
  /\ lastAlert' = "none"
  /\ UNCHANGED <<state, slot, nextUid, editingPracticeId, editingCompId,
                 editingAimId, aimDraft, rows, rowsLive, selOptions, addDisabled,
                 aimVars, loadVars, calcIn, calcOut>>

ScoringChoices == {"nasp3d", "custom"}

setAnimalScoring ==
  \E v \in ScoringChoices :
    LET d == [state EXCEPT !.settings = v]
    IN /\ state' = d
       /\ slot' = JSONstringify(d)
       /\ lastAlert' = "none"
       /\ UNCHANGED <<nextUid, editingPracticeId, editingCompId, editingAimId,
                      aimDraft, rows, rowsLive, selOptions, addDisabled, loadVars, calcVars, aimVars>>

\* JSON.parse(text) throws, or imported.settings is read on null
ImportThrows(text) == text.kind \in {"invalid", "null"}

\* the document the import handler assigns to `state`
ImportedDoc(text, u) == MergeDefaults(text, u)

\* files the user can pick in the import dialog
ImportFiles ==
  { InvalidText, NullText,
    TextObject(TRUE, <<pA, pB>>, TRUE, 1,
               ListValue(<<OldSession, NewSession>>), ListValue(<<OldComp>>),
               ListValue(<<StoredMap, OwnedMap>>), ""),
    TextObject(TRUE, <<>>, FALSE, None, NotAList, NotAList, NotAList, "custom") }

\* a backup holding five profiles, and a stored text holding four
FiveProfilesText ==
  TextObject(TRUE, FiveProfiles, TRUE, 2, NotAList, ListValue(<<CubComp>>),
             NotAList, "")
FourProfilesText ==
  TextObject(TRUE, SubSeq(FiveProfiles, 1, 4), TRUE, 1,
             ListValue(<<NewSession>>), NotAList, ListValue(<<OwnedMap>>), "")


\* an import that assigns `state` before the text has been parsed
ImportResultEarly(text, d, u) ==
  IF ImportThrows(text) THEN defaultState(u) ELSE ImportedDoc(text, u)

\* what the handler leaves in `state` and in the slot for the picked file,
\* when they held d and t before
ImportResult(text, d, u) ==
  IF ImportThrows(text) THEN d ELSE ImportedDoc(text, u)

ImportSlot(text, t, u) ==
  IF ImportThrows(text) THEN t ELSE JSONstringify(ImportedDoc(text, u))

importFileOf(text) ==
  /\ UidAfter(ImportResult(text, state, nextUid + 1)) <= MaxUid
  /\ state' = ImportResult(text, state, nextUid + 1)
  /\ slot' = ImportSlot(text, slot, nextUid + 1)
  /\ nextUid' = UidAfter(ImportResult(text, state, nextUid + 1))
  /\ rowsLive' = (ImportThrows(text) /\ rowsLive)
  /\ aimShared' = (ImportThrows(text) /\ aimShared)
  /\ lastAlert' = IF ImportThrows(text) THEN "import-failed" ELSE "import-complete"
  /\ UNCHANGED <<editingPracticeId, editingCompId, editingAimId, aimDraft,
                 rows, selOptions, addDisabled, draggingMarker, uploads, aimImg,
                 loadVars, calcVars>>

importFile == \E text \in ImportFiles : importFileOf(text)

importFiveProfiles == importFileOf(FiveProfilesText)

\* the wipe button; ok is the answer given to confirm()
wipeOf(ok) ==
  /\ IF ok
     THEN /\ nextUid + 1 <= MaxUid
          /\ state' = defaultState(nextUid + 1)
          /\ slot' = JSONstringify(defaultState(nextUid + 1))
          /\ nextUid' = nextUid + 1
          /\ editingPracticeId' = None
          /\ editingCompId' = None
          /\ editingAimId' = None
          /\ aimDraft' = NoDraft
          /\ aimShared' = FALSE
          /\ draggingMarker' = None
          /\ rowsLive' = FALSE
          /\ lastAlert' = "wiped"
     ELSE /\ lastAlert' = "declined"
          /\ UNCHANGED <<state, slot, nextUid, editingPracticeId, editingCompId,
                         editingAimId, aimDraft, aimShared, draggingMarker,
                         rowsLive>>
  /\ UNCHANGED <<rows, selOptions, addDisabled, uploads, aimImg, loadVars,
                 calcVars>>

wipe == \E ok \in BOOLEAN : wipeOf(ok)

(***************************************************************************)
(* The score functions of the lists and charts: competitionMax,            *)
(* competitionTotal, practiceTotals, linearSlope.  A number-or-null result *)
(* is [kind, num, den]: kind "null" for null, "num" for the number         *)
(* num / den, "throw" when the call throws.                                *)
(***************************************************************************)
NullNum == [kind |-> "null", num |-> 0, den |-> 1]
Frac(n, d) == [kind |-> "num", num |-> n, den |-> d]
Num(n) == Frac(n, 1)
Thrown == [kind |-> "throw", num |-> 0, den |-> 1]
NoResult == [kind |-> "none", num |-> 0, den |-> 1]
NoCalc == [fn |-> "none", arg |-> 0]

\* two results are the same number
SameNum(a, b) ==
  /\ a.kind = "num" /\ b.kind = "num"
  /\ a.num * b.den = b.num * a.den

RECURSIVE SumSeq(_)
SumSeq(s) == IF s = <<>> THEN 0 ELSE Head(s) + SumSeq(Tail(s))

\* arr.reduce((s, n) => s + safeNumber(n), 0)
sum(arr) == SumSeq([i \in 1..Len(arr) |-> safeNumber(arr[i])])

\* Array.isArray(field) ? field : []
ArrayOrEmpty(field) == IF field.t = "list" THEN field.v ELSE <<>>

\* (field || []) in front of .reduce: a missing key and 0 give [], a list
\* gives itself, and any other number has no reduce method
ReduceThrows(field) == field.t = "num" /\ field.v[1] # 0

\* competitionMax that looks at the stored format before the category
competitionMaxByFormat(c) ==
  IF c.round = "animal" THEN NullNum
  ELSE IF c.round = "bullseye"
  THEN IF c.bullseye.has /\ c.bullseye.format = "legacy"
       THEN Num((Len(ArrayOrEmpty(c.bullseye.m10))
                   + Len(ArrayOrEmpty(c.bullseye.m15))) * 50)
       ELSE IF c.bullseye.has /\ c.bullseye.format = "4x10" THEN Num(200)
       ELSE Num(600)
  ELSE NullNum

competitionMax(c) ==
  IF c.round = "animal" THEN NullNum
  ELSE IF c.round = "bullseye"
  THEN LET cat == IF c.category = "" THEN "adult" ELSE c.category
       IN IF cat \in {"cub", "beginner"} THEN Num(200)
          ELSE IF cat \in {"junior", "senior", "adult"} THEN Num(600)
          ELSE IF c.bullseye.has /\ c.bullseye.format = "legacy"
          THEN Num((Len(ArrayOrEmpty(c.bullseye.m10))
                      + Len(ArrayOrEmpty(c.bullseye.m15))) * 50)
          ELSE NullNum
  ELSE NullNum

\* the sum over the sets of a '2sets' block
RECURSIVE SumSets(_)
SumSets(sets) ==
  IF sets = <<>> THEN 0
  ELSE sum(Head(sets).m10) + sum(Head(sets).m15) + SumSets(Tail(sets))

\* competitionTotal that adds only the 10 m half of each set
competitionTotalHalf(c) ==
  IF c.round = "bullseye" /\ c.bullseye.has /\ c.bullseye.format = "2sets"
  THEN Num(SumSeq([k \in 1..Len(c.bullseye.sets) |-> sum(c.bullseye.sets[k].m10)]))
  ELSE Num(0)

competitionTotal(c) ==
  LET b == c.bullseye
  IN IF c.round = "bullseye" /\ b.has /\ b.format = "4x10"
     THEN IF ReduceThrows(b.m10) THEN Thrown ELSE Num(sum(ArrayOrEmpty(b.m10)))
     ELSE IF c.round = "bullseye" /\ b.has /\ b.format = "2sets"
     THEN Num(SumSets(b.sets))
     ELSE IF c.round = "bullseye" /\ b.has /\ b.format = "legacy"
     THEN IF ReduceThrows(b.m10) \/ ReduceThrows(b.m15) THEN Thrown
          ELSE Num(sum(ArrayOrEmpty(b.m10)) + sum(ArrayOrEmpty(b.m15)))
     ELSE IF c.round = "animal" /\ c.animal.has
     THEN Num(sum(c.animal.scores))
     ELSE Num(0)

\* meanOrNull(arr)
meanOrNull(arr) == IF Len(arr) = 0 THEN NullNum ELSE Frac(sum(arr), Len(arr))

\* practiceTotals that reports an empty distance as 0
practiceTotalsZero(session) ==
  LET m10 == ArrayOrEmpty(session.bullseye.m10)
      m15 == ArrayOrEmpty(session.bullseye.m15)
  IN [kind |-> "totals",
      bull10Sum |-> Num(sum(m10)), bull15Sum |-> Num(sum(m15)),
      bull10Avg |-> IF Len(m10) > 0 THEN meanOrNull(m10) ELSE Num(0),
      bull15Avg |-> IF Len(m15) > 0 THEN meanOrNull(m15) ELSE Num(0),
      bullTotalSum |-> Num(sum(m10) + sum(m15)),
      animalTotal |-> Num(sum(session.animal.scores))]

practiceTotals(session) ==
  LET m10 == ArrayOrEmpty(session.bullseye.m10)
      m15 == ArrayOrEmpty(session.bullseye.m15)
      has == session.bullseye.has
  IN [kind |-> "totals",
      bull10Sum |-> IF has /\ Len(m10) > 0 THEN Num(sum(m10)) ELSE NullNum,
      bull15Sum |-> IF has /\ Len(m15) > 0 THEN Num(sum(m15)) ELSE NullNum,
      bull10Avg |-> IF has /\ Len(m10) > 0 THEN meanOrNull(m10) ELSE NullNum,
      bull15Avg |-> IF has /\ Len(m15) > 0 THEN meanOrNull(m15) ELSE NullNum,
      bullTotalSum |-> IF has THEN Num(sum(m10) + sum(m15)) ELSE NullNum,
      animalTotal |-> IF session.animal.has THEN Num(sum(session.animal.scores))
                      ELSE NullNum]

\* Array.prototype.sort with comparator key(a) - key(b): ascending and stable
SortAsc(s, keys) ==
  LET n == Len(s)
      rank(i) == 1 + Cardinality({j \in 1..n :
                       \/ keys[j] < keys[i]
                       \/ (keys[j] = keys[i] /\ j < i)})
  IN [k \in 1..n |-> s[CHOOSE i \in 1..n : rank(i) = k]]

Metrics ==
  {"bull_sum", "bull_10_avg", "bull_15_avg", "animal_total", "comp_total",
   "comp_percent"}

\* max ? (total / max * 100) : 0
Percent(total, max) ==
  IF max.kind = "num" /\ max.num # 0
  THEN IF total.kind = "num"
       THEN Frac(total.num * 100 * max.den, total.den * max.num)
       ELSE total
  ELSE Num(0)

\* the points {y, label} of the progress chart for `metric`; the label is
\* taken as the date it is formatted from
getSeries(d, metric) ==
  IF metric \in {"bull_sum", "bull_10_avg", "bull_15_avg"}
  THEN LET withBull == SelectSeq(d.practice, LAMBDA r : r.bullseye.has)
           list == SortAsc(withBull, [i \in 1..Len(withBull) |-> withBull[i].datetime])
           m10(r) == ArrayOrEmpty(r.bullseye.m10)
           m15(r) == ArrayOrEmpty(r.bullseye.m15)
           avg(arr) == IF Len(arr) = 0 THEN Num(0) ELSE meanOrNull(arr)
       IN [i \in 1..Len(list) |->
             [label |-> list[i].datetime,
              y |-> IF metric = "bull_sum"
                    THEN Num(sum(m10(list[i])) + sum(m15(list[i])))
                    ELSE IF metric = "bull_10_avg" THEN avg(m10(list[i]))
                    ELSE avg(m15(list[i]))]]
  ELSE IF metric = "animal_total"
  THEN LET withAnimal == SelectSeq(d.practice, LAMBDA r : r.animal.has)
           list == SortAsc(withAnimal,
                           [i \in 1..Len(withAnimal) |-> withAnimal[i].datetime])
       IN [i \in 1..Len(list) |->
             [label |-> list[i].datetime, y |-> Num(sum(list[i].animal.scores))]]
  ELSE IF metric \in {"comp_total", "comp_percent"}
  THEN LET mine == competitionsForActive(d)
           list == SortAsc(mine, [i \in 1..Len(mine) |-> mine[i].date])
       IN [i \in 1..Len(list) |->
             [label |-> list[i].date,
              y |-> IF metric = "comp_percent"
                    THEN Percent(competitionTotal(list[i]), competitionMax(list[i]))
                    ELSE competitionTotal(list[i])]]
  ELSE <<>>

practiceScoreByMetric(session, metric) ==
  LET m10 == ArrayOrEmpty(session.bullseye.m10)
      m15 == ArrayOrEmpty(session.bullseye.m15)
  IN IF metric = "bull_sum"
     THEN IF session.bullseye.has THEN Num(sum(m10) + sum(m15)) ELSE NullNum
     ELSE IF metric = "bull_10_avg"
     THEN IF session.bullseye.has THEN meanOrNull(m10) ELSE NullNum
     ELSE IF metric = "bull_15_avg"
     THEN IF session.bullseye.has THEN meanOrNull(m15) ELSE NullNum
     ELSE IF metric = "animal_total"
     THEN IF session.animal.has THEN Num(sum(session.animal.scores)) ELSE NullNum
     ELSE NullNum

\* the `points` renderTrends charts: the sessions in date order with the
\* score of each, those without a score left out
TrendPoints(d, metric) ==
  LET sessions == SortAsc(d.practice, [i \in 1..Len(d.practice) |-> d.practice[i].datetime])
      scored == SelectSeq(sessions,
                          LAMBDA r : practiceScoreByMetric(r, metric).kind # "null")
  IN [i \in 1..Len(scored) |->
        [session |-> scored[i], score |-> practiceScoreByMetric(scored[i], metric)]]

\* mean(arr) scaled by the length: the caller divides
MeanTimesLen(arr) == SumSeq(arr)

\* linearSlope that also wants a third point
linearSlopeThree(values) ==
  LET n == Len(values)
      sx == SumSeq([i \in 1..n |-> i - 1])
      sy == MeanTimesLen(values)
  IN IF n < 3 THEN NullNum
     ELSE Frac(SumSeq([i \in 1..n |-> (n * (i - 1) - sx) * (n * values[i] - sy)]),
               SumSeq([i \in 1..n |-> (n * (i - 1) - sx) * (n * (i - 1) - sx)]))

\* linearSlope(values): xs = 0..n-1, mx = sx / n, my = sy / n; num and den
\* are both kept multiplied by n * n, which leaves num / den as it is
linearSlope(values) ==
  LET n == Len(values)
      sx == SumSeq([i \in 1..n |-> i - 1])
      sy == MeanTimesLen(values)
      num == SumSeq([i \in 1..n |-> (n * (i - 1) - sx) * (n * values[i] - sy)])
      den == SumSeq([i \in 1..n |-> (n * (i - 1) - sx) * (n * (i - 1) - sx)])
  IN IF n < 2 THEN NullNum
     ELSE IF den = 0 THEN NullNum
     ELSE Frac(num, den)

(***************************************************************************)
(* Number arithmetic with rounding, for pearson.  A Number is m * 2^e with  *)
(* a significand m of MantissaBits bits (binary64 has 53); every operation *)
(* returns the representable value nearest to the exact result, ties to    *)
(* the even significand.  Exponents are unbounded: no overflow, underflow. *)
(***************************************************************************)
Float(m, e) == [m |-> m, e |-> e]
Zero == Float(0, 0)

RECURSIVE Pow2(_)
Pow2(k) == IF k = 0 THEN 1 ELSE 2 * Pow2(k - 1)

RECURSIVE BitLength(_)
BitLength(n) == IF n = 0 THEN 0 ELSE 1 + BitLength(n \div 2)

Abs(n) == IF n < 0 THEN -n ELSE n
Sign(n) == IF n < 0 THEN -1 ELSE 1

\* the Number nearest to the exact value N * 2^E
RoundNumber(N, E) ==
  LET a == Abs(N)
      k == BitLength(a)
      sh == k - MantissaBits
      q == a \div Pow2(sh)
      rem == a - q * Pow2(sh)
      half == Pow2(sh - 1)
      up == IF rem > half \/ (rem = half /\ q % 2 = 1) THEN q + 1 ELSE q
  IN IF N = 0 THEN Zero
     ELSE IF k <= MantissaBits
     THEN Float(N * Pow2(MantissaBits - k), E - (MantissaBits - k))
     ELSE IF up = Pow2(MantissaBits)
     THEN Float(Sign(N) * Pow2(MantissaBits - 1), E + sh + 1)
     ELSE Float(Sign(N) * up, E + sh)

ToNumber(n) == RoundNumber(n, 0)

\* x + y; an operand more than MantissaBits + 2 binary places below the
\* other cannot move the rounded sum
NumberAdd(x, y) ==
  LET hi == IF x.e >= y.e THEN x ELSE y
      lo == IF x.e >= y.e THEN y ELSE x
      d == hi.e - lo.e
  IN IF x.m = 0 THEN y
     ELSE IF y.m = 0 THEN x
     ELSE IF d > MantissaBits + 2 THEN hi
     ELSE RoundNumber(hi.m * Pow2(d) + lo.m, lo.e)

NumberSub(x, y) == NumberAdd(x, Float(-y.m, y.e))

NumberMul(x, y) == RoundNumber(x.m * y.m, x.e + y.e)

\* x / y for y # 0: MantissaBits + 2 quotient bits and a sticky bit
NumberDiv(x, y) ==
  LET a == Abs(x.m) * Pow2(MantissaBits + 2)
      b == Abs(y.m)
      q == a \div b
      sticky == IF a % b = 0 THEN 0 ELSE 1
  IN IF x.m = 0 THEN Zero
     ELSE RoundNumber(Sign(x.m) * Sign(y.m) * (2 * q + sticky),
                      x.e - y.e - MantissaBits - 3)

RECURSIVE SqrtFloor(_, _, _)
SqrtFloor(M, lo, hi) ==
  IF lo = hi THEN lo
  ELSE LET mid == (lo + hi + 1) \div 2
       IN IF mid * mid <= M THEN SqrtFloor(M, mid, hi) ELSE SqrtFloor(M, lo, mid - 1)

\* Math.sqrt(x) for x >= 0
MathSqrt(x) ==
  LET t == MantissaBits + 2
      even == (x.e - 2 * t) % 2 = 0
      M == IF even THEN x.m * Pow2(2 * t) ELSE x.m * Pow2(2 * t + 1)
      e2 == IF even THEN x.e - 2 * t ELSE x.e - 2 * t - 1
      r == SqrtFloor(M, 0, Pow2(15))
      sticky == IF r * r = M THEN 0 ELSE 1
  IN IF x.m = 0 THEN Zero ELSE RoundNumber(2 * r + sticky, (e2 \div 2) - 1)

\* arr.reduce((a,b)=>a+b, 0) over the first k members, left to right
RECURSIVE AddUp(_, _)
AddUp(arr, k) == IF k = 0 THEN Zero ELSE NumberAdd(AddUp(arr, k - 1), arr[k])

mean(arr) ==
  IF Len(arr) = 0 THEN Zero ELSE NumberDiv(AddUp(arr, Len(arr)), ToNumber(Len(arr)))

NumberResult(x) == [kind |-> "float", m |-> x.m, e |-> x.e]

pearson(xs, ys) ==
  LET n == Len(xs)
      mx == mean(xs)
      my == mean(ys)
      a == [i \in 1..n |-> NumberSub(xs[i], mx)]
      b == [i \in 1..n |-> NumberSub(ys[i], my)]
      num == AddUp([i \in 1..n |-> NumberMul(a[i], b[i])], n)
      dx == AddUp([i \in 1..n |-> NumberMul(a[i], a[i])], n)
      dy == AddUp([i \in 1..n |-> NumberMul(b[i], b[i])], n)
      den == MathSqrt(NumberMul(dx, dy))
  IN IF Len(xs) # Len(ys) \/ Len(xs) < 2 THEN NullNum
     ELSE IF den.m = 0 THEN NullNum
     ELSE NumberResult(NumberDiv(num, den))

\* Arguments the functions are applied to.
SeqsUpTo(S, n) == UNION {[1..k -> S] : k \in 0..n}

CalcScores == {0, 8, 9}
SlopeValues == 0..5

CompLists ==
  { NumOther, NumBare(30), NumList(<<>>), NumList(<<20, 18, 19, 20>>),
    NumList(<<50, NaNValue>>) }

CompBlocks ==
  { NoCBullseye, CBullseye("", NumList(<<20, 18>>), NumOther, <<>>) } \cup
  { CBullseye("4x10", l, NumOther, <<>>) : l \in CompLists } \cup
  { CBullseye("2sets", NumOther, NumOther, sets) :
      sets \in SeqsUpTo({[m10 |-> <<9, 9, 8>>, m15 |-> <<7, 8, 9>>],
                         [m10 |-> <<50, 0, NaNValue>>, m15 |-> <<>>]}, 2) } \cup
  { CBullseye("legacy", l, NumList(<<240>>), <<>>) : l \in CompLists }

CompInputs ==
  { CompetitionRecord(5, 1, 1, round, cat, b, a, 0, 1, 1) :
      round \in {"bullseye", "animal"},
      cat \in {"", "cub", "beginner", "junior", "senior", "adult", "open"},
      b \in CompBlocks,
      a \in {NoAnimal, AnimalRows(<<10, 8, 5, 0, 10, 8>>)} } \cup
  { MigrateCompetition(OldComp), MigrateCompetition(OldComp10) }

PracticeFields ==
  { NumList(l) : l \in SeqsUpTo(CalcScores, MaxRounds) } \cup {NumBare(30), NumOther}

PracticeInputs ==
  { PracticeSession(3, 1, 1, b, a, 1, 1) :
      b \in {NoBullseye} \cup { PBullseye(f10, f15) :
                                  f10 \in PracticeFields, f15 \in PracticeFields },
      a \in {NoAnimal, AnimalRows(<<>>), AnimalRows(<<10, NaNValue, 5>>)} }

SlopeInputs == SeqsUpTo(SlopeValues, MaxPoints)

CalcInputs ==
  { [fn |-> "competitionMax", arg |-> c] : c \in CompInputs } \cup
  { [fn |-> "competitionTotal", arg |-> c] : c \in CompInputs } \cup
  { [fn |-> "practiceTotals", arg |-> x] : x \in PracticeInputs } \cup
  { [fn |-> "linearSlope", arg |-> ys] : ys \in SlopeInputs }

\* One call of each function, as the list and chart renderers make it.
competitionMaxCalled ==
  /\ calcIn.fn = "competitionMax" /\ calcOut.kind = "none"
  /\ calcOut' = competitionMax(calcIn.arg)
  /\ UNCHANGED <<calcIn, exported, appVars, loadVars>>

competitionTotalCalled ==
  /\ calcIn.fn = "competitionTotal" /\ calcOut.kind = "none"
  /\ calcOut' = competitionTotal(calcIn.arg)
  /\ UNCHANGED <<calcIn, exported, appVars, loadVars>>

practiceTotalsCalled ==
  /\ calcIn.fn = "practiceTotals" /\ calcOut.kind = "none"
  /\ calcOut' = practiceTotals(calcIn.arg)
  /\ UNCHANGED <<calcIn, exported, appVars, loadVars>>

linearSlopeCalled ==
  /\ calcIn.fn = "linearSlope" /\ calcOut.kind = "none"
  /\ calcOut' = linearSlope(calcIn.arg)
  /\ UNCHANGED <<calcIn, exported, appVars, loadVars>>

(***************************************************************************)
(* The application.                                                        *)
(***************************************************************************)
\* texts the slot can hold when the page is first opened
\* two profiles with records of both kinds, some written before profiles
\* and list-valued scores existed
RecordsText ==
  TextObject(TRUE, <<pA, pB>>, TRUE, 1,
             ListValue(<<OldSession, NewSession>>), ListValue(<<OldComp>>),
             ListValue(<<StoredMap, OwnedMap>>), "")

\* one profile's practice log as the submit handler leaves it: latest first
PracticeText ==
  TextObject(TRUE, <<pA, pB>>, TRUE, 1,
             ListValue(<<[NewSession EXCEPT !.profileId = 1],
                         [OldSession EXCEPT !.profileId = 1]>>),
             ListValue(<<>>), ListValue(<<OwnedMap>>), "")

StoredTexts ==
  { AbsentText,
    RecordsText,
    TextObject(TRUE, <<pA, pB>>, TRUE, 9, NotAList, NotAList, NotAList, "") }

InitFrom(texts) ==
  \E text \in texts :
    /\ state = StartDoc(text, FirstUid)
    /\ slot = StartSlot(text, FirstUid)
    /\ nextUid = StartUid
    /\ editingPracticeId = None
    /\ editingCompId = None
    /\ editingAimId = None
    /\ aimDraft = NoDraft
    /\ rows = DrawnProfiles(StartDoc(text, FirstUid))
    /\ rowsLive = TRUE
    /\ selOptions = DrawnProfiles(StartDoc(text, FirstUid))
    /\ addDisabled = (Len(StartDoc(text, FirstUid).profiles) >= MaxProfiles)
    /\ lastAlert = "none"
    /\ aimShared = FALSE
    /\ draggingMarker = None
    /\ uploads = <<>>
    /\ aimImg = NoImage
    /\ calcIn = NoCalc
    /\ calcOut = NoResult
    /\ exported = NoExport
    /\ ltext = AbsentText
    /\ ldoc = EmptyDoc
    /\ lpass = 0

Init == InitFrom(StoredTexts)

Next ==
  \/ Reload
  \/ PracticeSubmit
  \/ editPractice
  \/ resetPracticeForm
  \/ deletePractice
  \/ CompSubmit
  \/ editCompetition
  \/ resetCompForm
  \/ deleteCompetition
  \/ addProfile
  \/ renameProfile
  \/ useProfile
  \/ selectProfile
  \/ deleteProfile
  \/ newAimPaper
  \/ newAimAnimal
  \/ closeAimEditor
  \/ openAimEditor
  \/ aimOverlayClick
  \/ aimClearDistance
  \/ markerPointerDown
  \/ markerPointerMove
  \/ markerPointerUp
  \/ aimSave
  \/ aimDelete
  \/ aimUpload
  \/ readSettled
  \/ setAnimalScoring
  \/ importFile
  \/ wipe
  \/ exportBtn

Spec == Init /\ [][Next]_vars

\* The profile manager, the aim-map list and the whole-document operations.
NextProfiles ==
  \/ Reload
  \/ addProfile
  \/ renameProfile
  \/ useProfile
  \/ selectProfile
  \/ deleteProfile
  \/ newAimPaper
  \/ newAimAnimal
  \/ closeAimEditor
  \/ setAnimalScoring
  \/ importFile
  \/ wipe

SpecProfiles == Init /\ [][NextProfiles]_vars

\* Adding and deleting profiles, from four stored profiles.
InitCount == InitFrom({FourProfilesText})

NextCount ==
  \/ addProfile
  \/ deleteProfile
  \/ newAimPaper
  \/ importFiveProfiles

SpecCount == InitCount /\ [][NextCount]_vars

\* The practice and competition forms and the whole-document operations.
NextRecords ==
  \/ PracticeSubmit
  \/ editPractice
  \/ resetPracticeForm
  \/ deletePractice
  \/ CompSubmit
  \/ editCompetition
  \/ resetCompForm
  \/ deleteCompetition
  \/ useProfile

SpecRecords == Init /\ [][NextRecords]_vars

\* The practice form over sorted and unsorted practice logs.
NextPractice ==
  \/ PracticeSubmit
  \/ editPractice
  \/ resetPracticeForm
  \/ deletePractice

InitPractice == InitFrom(StoredTexts \cup {PracticeText})

SpecPractice == InitPractice /\ [][NextPractice]_vars

\* The five operations that ask before they delete, with the editors open.
NextConfirm ==
  \/ editPractice
  \/ editCompetition
  \/ openAimEditor
  \/ deletePractice
  \/ deleteCompetition
  \/ aimDelete
  \/ deleteProfile
  \/ wipe

InitConfirm == InitFrom({RecordsText})

SpecConfirm == InitConfirm /\ [][NextConfirm]_vars

\* The two score forms, creating records and editing stored ones.
\* (the forms dated on the first or the last day, submitted at the first
\* instant)
PracticeSubmitScores ==
  \E f \in {g \in PracticeForms : g.date \in {1, MaxDate}} : PracticeSubmitOf(f, 1)

CompSubmitScores ==
  \E f \in {g \in CompForms : g.date \in {1, MaxDate}} : CompSubmitOf(f, 1)

NextForms ==
  \/ PracticeSubmitScores
  \/ editPractice
  \/ CompSubmitScores
  \/ editCompetition

SpecForms == Init /\ [][NextForms]_vars

\* The aim editor over stored paper maps, one of them already marked for both
\* distances.
MarkedMap ==
  AimMap(7, None, "Paper target", "paper", "builtin", "paper", "",
         <<Mark(10, 0, 0), Mark(15, 1, 1)>>)

AimText ==
  TextObject(TRUE, <<pA>>, TRUE, 1, ListValue(<<>>), ListValue(<<>>),
             ListValue(<<MarkedMap, [StoredMap EXCEPT !.id = 8]>>), "")

InitAim == InitFrom({AimText})

NextAim ==
  \/ openAimEditor
  \/ aimOverlayClick
  \/ aimClearDistance
  \/ markerPointerDown
  \/ markerPointerMove
  \/ markerPointerUp
  \/ closeAimEditor

SpecAim == InitAim /\ [][NextAim]_vars

\* Picking an image file in the aim editor, around save, delete and close.
NextUpload ==
  \/ openAimEditor
  \/ aimUpload
  \/ readSettled
  \/ aimSave
  \/ aimDelete
  \/ closeAimEditor

SpecUpload == InitAim /\ [][NextUpload]_vars

\* Export between handlers that change the document.
NextExport ==
  \/ exportBtn
  \/ useProfile
  \/ newAimPaper
  \/ setAnimalScoring

SpecExport == Init /\ [][NextExport]_vars

\* The competition form with the inputs of each category, every input typed
\* over with the same value v.
TypedInto(inputs, v) ==
  [c10 |-> [i \in DOMAIN inputs.c10 |-> v],
   sets |-> [k \in DOMAIN inputs.sets |->
               [m10 |-> [i \in DOMAIN inputs.sets[k].m10 |-> v],
                m15 |-> [i \in DOMAIN inputs.sets[k].m15 |-> v]]]]

CategoryForms ==
  { [date |-> 1, event |-> TRUE, round |-> r, category |-> cat,
     c10 |-> TypedInto(renderCompBullseyeDynamic(cat), v).c10,
     sets |-> TypedInto(renderCompBullseyeDynamic(cat), v).sets,
     scores |-> CompAnimalInputs, tens |-> 0]
      : r \in {"bullseye", "animal"}, cat \in CompCategories, v \in {0, 50} }

CompSubmitCategory == \E f \in CategoryForms : CompSubmitOf(f, 1)

NextCategory ==
  \/ CompSubmitCategory
  \/ editCompetition
  \/ resetCompForm

SpecCategory == Init /\ [][NextCategory]_vars

\* The competition form over a document written by the earlier version of
\* the form, which stored one number of 0..999 per distance.
OldCompHigh ==
  CompetitionRecord(5, None, 1, "bullseye", "",
                    CBullseye("", NumBare(400), NumBare(350), <<>>), NoAnimal, 0, 1, 1)

HighText ==
  TextObject(TRUE, <<pA>>, TRUE, 1, ListValue(<<>>), ListValue(<<OldCompHigh>>),
             ListValue(<<StoredMap>>), "")

NextScores ==
  \/ CompSubmitCategory
  \/ editCompetition
  \/ resetCompForm
  \/ deleteCompetition
  \/ Reload

InitScores == InitFrom({HighText, AimText, RecordsText})

SpecScores == InitScores /\ [][NextScores]_vars

\* Import, wipe and reload around the practice form.
NextImport ==
  \/ importFile
  \/ wipe
  \/ Reload
  \/ PracticeSubmit
  \/ editPractice
  \/ deletePractice

SpecImport == Init /\ [][NextImport]_vars

(***************************************************************************)
(* The load check: loadState applied to the stored text ltext, then again  *)
(* to the text of its own result.                                          *)
(***************************************************************************)
LoadPass ==
  /\ lpass < MaxPasses
  /\ ldoc' = loadState(IF lpass = 0 THEN ltext ELSE JSONstringify(ldoc),
                       FirstUid * (lpass + 1))
  /\ lpass' = lpass + 1
  /\ UNCHANGED <<ltext, appVars, calcVars>>

InitLoad ==
  /\ ltext \in LoadInputs
  /\ ldoc = EmptyDoc
  /\ lpass = 0
  /\ state = defaultState(FirstUid)
  /\ slot = AbsentText
  /\ nextUid = FirstUid
  /\ editingPracticeId = None
  /\ editingCompId = None
  /\ editingAimId = None
  /\ aimDraft = NoDraft
  /\ rows = <<>>
  /\ rowsLive = TRUE
  /\ selOptions = <<>>
  /\ addDisabled = FALSE
  /\ lastAlert = "none"
  /\ aimShared = FALSE
  /\ draggingMarker = None
  /\ uploads = <<>>
  /\ aimImg = NoImage
  /\ calcIn = NoCalc
  /\ calcOut = NoResult
  /\ exported = NoExport

SpecLoad == InitLoad /\ [][LoadPass]_vars

(***************************************************************************)
(* The score functions, each applied once to an argument.                  *)
(***************************************************************************)
InitCalcOn(inputs) ==
  /\ calcIn \in inputs
  /\ calcOut = NoResult
  /\ exported = NoExport
  /\ state = defaultState(FirstUid)
  /\ slot = AbsentText
  /\ nextUid = FirstUid
  /\ editingPracticeId = None
  /\ editingCompId = None
  /\ editingAimId = None
  /\ aimDraft = NoDraft
  /\ rows = <<>>
  /\ rowsLive = TRUE
  /\ selOptions = <<>>
  /\ addDisabled = FALSE
  /\ lastAlert = "none"
  /\ aimShared = FALSE
  /\ draggingMarker = None
  /\ uploads = <<>>
  /\ aimImg = NoImage
  /\ ltext = AbsentText
  /\ ldoc = EmptyDoc
  /\ lpass = 0

InitCalc == InitCalcOn(CalcInputs)

NextCalc ==
  \/ competitionMaxCalled
  \/ competitionTotalCalled
  \/ practiceTotalsCalled
  \/ linearSlopeCalled

SpecCalc == InitCalc /\ [][NextCalc]_vars

\* pearson applied to pairs of short series, as the trend view calls it
PearsonValues == 0..3
PearsonInputs ==
  { [fn |-> "pearson", arg |-> [xs |-> xs, ys |-> ys]] :
      xs \in SeqsUpTo(PearsonValues, MaxPairLen),
      ys \in SeqsUpTo(PearsonValues, MaxPairLen) }

pearsonCalled ==
  /\ calcIn.fn = "pearson" /\ calcOut.kind = "none"
  /\ calcOut' = pearson([i \in 1..Len(calcIn.arg.xs) |-> ToNumber(calcIn.arg.xs[i])],
                        [i \in 1..Len(calcIn.arg.ys) |-> ToNumber(calcIn.arg.ys[i])])
  /\ UNCHANGED <<calcIn, exported, appVars, loadVars>>

InitCorr == InitCalcOn(PearsonInputs)

SpecCorr == InitCorr /\ [][pearsonCalled]_vars

(***************************************************************************)
(* Claims.                                                                 *)
(***************************************************************************)
ActiveResolves(d) ==
  /\ Len(d.profiles) > 0
  /\ \E i \in 1..Len(d.profiles) :
        d.profiles[i].t = "obj" /\ d.profiles[i].id = d.activeProfileId

\* C1: after loadState and after every later operation, `profiles` is
\* non-empty and activeProfileId is the id of one of its members.
C1_ProfileInvariant == ActiveResolves(state)

\* C2: loadState applied to the text of its own result returns that same
\* document (a second pass changes nothing).
C2_LoadIdempotent == [][lpass >= 1 => ldoc' = ldoc]_vars

WrongStructure(t) ==
  \/ t.kind \in {"absent", "invalid", "null"}
  \/ /\ t.kind = "object"
     /\ t.hasProfiles
     /\ \E i \in 1..Len(t.profiles) : t.profiles[i].t # "obj"

IsFreshDefault(d) ==
  /\ Len(d.profiles) = 1
  /\ d.profiles[1].t = "obj"
  /\ d.profiles[1].name = "Archer 1"
  /\ ~Falsy(d.profiles[1].id)
  /\ d.activeProfileId = d.profiles[1].id
  /\ d.practice = <<>> /\ d.competitions = <<>> /\ d.aimMaps = <<>>
  /\ d.settings = "nasp3d"

\* C3: when the slot is absent, is not JSON, or holds JSON of the wrong
\* structure (null, a profiles list with a non-object member), loadState
\* returns a fresh default document.
C3_LoadFallsBack == (lpass = 1 /\ WrongStructure(ltext)) => IsFreshDefault(ldoc)

Unparsable(t) == t.kind \in {"invalid", "null"}

\* C4: importing a file that is not valid JSON, or whose value makes the
\* merge throw, leaves the document and the slot as they were and reports
\* the failure.
C4_FailedImportKeepsAll ==
  [][\A t \in ImportFiles :
       (importFileOf(t) /\ Unparsable(t)) =>
          (state' = state /\ slot' = slot /\ lastAlert' = "import-failed")]_vars

\* a failed import has happened over a stored document that holds records
C4_Witness ==
  /\ lastAlert = "import-failed"
  /\ slot.kind = "object"
  /\ Len(state.practice) > 0

\* C5: after a successful import of text t the document is the one loadState
\* returns for t.
C5_ImportNormalizes ==
  [][\A t \in ImportFiles :
       (importFileOf(t) /\ ~Unparsable(t)) => state' = loadState(t, nextUid)]_vars

\* C6: every handler that changes the document leaves its text in the slot.
C6_WriteThrough ==
  [][Reload \/ state' = state \/ slot' = JSONstringify(state')]_vars

Owner(d, r) == IF Falsy(r.profileId) THEN getActiveProfileId(d) ELSE r.profileId
IdSeq(list) == [i \in 1..Len(list) |-> list[i].id]
IdsNotOwnedBy(d, list, pid) == IdSeq(SelectSeq(list, LAMBDA r : Owner(d, r) # pid))

\* C7: a confirmed delete of profile P (two or more profiles) removes exactly
\* P's records and P, and leaves a remaining profile active; with one
\* profile it is refused and changes nothing.
C7_DeleteRemovesOwned ==
  [][\A i \in 1..Len(rows), ok \in BOOLEAN :
       (deleteProfileOf(i, ok) /\ rows[i] \in Ids(state.profiles)) =>
          IF Len(state.profiles) <= 1
          THEN state' = state
          ELSE ok =>
             /\ IdSeq(state'.practice) = IdsNotOwnedBy(state, state.practice, rows[i])
             /\ IdSeq(state'.competitions) =
                   IdsNotOwnedBy(state, state.competitions, rows[i])
             /\ IdSeq(state'.aimMaps) = IdsNotOwnedBy(state, state.aimMaps, rows[i])
             /\ Ids(state'.profiles) = Ids(state.profiles) \ {rows[i]}
             /\ state.activeProfileId = rows[i] =>
                   state'.activeProfileId \in Ids(state'.profiles)]_vars

CountInRange(d) == Len(d.profiles) >= 1 /\ Len(d.profiles) <= MaxProfiles

\* C8: from 1..5 profiles, add and delete keep the count in 1..5, and an add
\* at 5 profiles or with an empty name leaves the document unchanged.
C8_ProfileCountBound ==
  [][/\ \A name \in ProfileNames :
          (addProfileOf(name) /\ CountInRange(state)) =>
             /\ CountInRange(state')
             /\ (Len(state.profiles) >= MaxProfiles \/ name = "") => state' = state
     /\ \A i \in 1..Len(rows), ok \in BOOLEAN :
          (deleteProfileOf(i, ok) /\ CountInRange(state)) => CountInRange(state')]_vars

KeepsCreatedAt(before, after, id) ==
  FindIndexById(before, id) > 0 =>
    /\ FindIndexById(after, id) > 0
    /\ after[FindIndexById(after, id)].createdAt =
         before[FindIndexById(before, id)].createdAt

\* C9: submitting the practice (competition) form in edit mode keeps the
\* record's id and its original createdAt.
C9_EditKeepsCreatedAt ==
  [][/\ \A f \in PracticeForms, now \in Times :
          (PracticeSubmitOf(f, now) /\ editingPracticeId # None /\ f.date # None)
            => KeepsCreatedAt(state.practice, state'.practice, editingPracticeId)
     /\ \A f \in CompForms, now \in Times :
          (CompSubmitOf(f, now) /\ editingCompId # None /\ f.date # None /\ f.event)
            => KeepsCreatedAt(state.competitions, state'.competitions, editingCompId)]_vars

DescendingByDatetime(list) ==
  \A i \in 1..(Len(list) - 1) : list[i].datetime >= list[i + 1].datetime

\* C10: after every successful practice submit the whole practice list is in
\* descending datetime order, and deleting a session keeps a list that was
\* in that order in that order.  (Either the list is in order after the
\* step, or the step is neither of the two.)
C10_PracticeSorted ==
  [][\/ DescendingByDatetime(state'.practice)
     \/ /\ \A f \in PracticeForms, now \in Times :
             f.date # None => ~PracticeSubmitOf(f, now)
        /\ DescendingByDatetime(state.practice) =>
             \A i \in 1..Len(practiceForActive(state)), ok \in BOOLEAN :
                ~deletePracticeOf(i, ok)]_vars

\* a submit has moved the edited older session in front of the newer one
C10_Witness ==
  /\ Len(state.practice) = 2
  /\ state.practice[1].id = OldSession.id
  /\ state.practice[2].id = NewSession.id
  /\ state.practice[1].datetime > state.practice[2].datetime
  /\ state.practice[2].bullseye.m10 = NumList(<<30, 50, 0>>)

\* C11: competitionMax is null for an animal round; for a bullseye round it
\* is 200 for the categories cub and beginner and 600 for junior, senior and
\* adult.
C11_CompetitionMax ==
  (calcIn.fn = "competitionMax" /\ calcOut.kind # "none") =>
     /\ calcIn.arg.round = "animal" => calcOut = NullNum
     /\ (calcIn.arg.round = "bullseye"
           /\ calcIn.arg.category \in {"cub", "beginner"}) => calcOut = Num(200)
     /\ (calcIn.arg.round = "bullseye"
           /\ calcIn.arg.category \in {"junior", "senior", "adult"})
          => calcOut = Num(600)

\* competitionMax has answered 600 for the migrated record of category adult
C11_Witness ==
  /\ calcIn.fn = "competitionMax"
  /\ calcIn.arg = MigrateCompetition(OldComp)
  /\ calcOut = Num(600)

\* C12: for a bullseye record of format 'legacy' competitionMax is
\* (len(m10) + len(m15)) * 50.
C12_LegacyMax ==
  (/\ calcIn.fn = "competitionMax" /\ calcOut.kind # "none"
   /\ calcIn.arg.round = "bullseye"
   /\ calcIn.arg.bullseye.has
   /\ calcIn.arg.bullseye.format = "legacy") =>
     calcOut = Num((Len(ArrayOrEmpty(calcIn.arg.bullseye.m10))
                      + Len(ArrayOrEmpty(calcIn.arg.bullseye.m15))) * 50)

\* every member of every list of the record's score block, one after another
RECURSIVE Flatten(_)
Flatten(seqs) == IF seqs = <<>> THEN <<>> ELSE Head(seqs) \o Flatten(Tail(seqs))

Finite(s) == [i \in 1..Len(s) |-> IF s[i] \in {NaNValue, InfinityValue} THEN 0 ELSE s[i]]

ListOrAbsent(field) == field.t \in {"list", "other"}

ScoredValues(c) ==
  IF c.round = "bullseye" /\ c.bullseye.has
  THEN IF c.bullseye.format = "4x10" THEN ArrayOrEmpty(c.bullseye.m10)
       ELSE IF c.bullseye.format = "2sets"
       THEN Flatten([k \in 1..Len(c.bullseye.sets) |->
                       c.bullseye.sets[k].m10 \o c.bullseye.sets[k].m15])
       ELSE IF c.bullseye.format = "legacy"
       THEN ArrayOrEmpty(c.bullseye.m10) \o ArrayOrEmpty(c.bullseye.m15)
       ELSE <<>>
  ELSE IF c.round = "animal" /\ c.animal.has THEN c.animal.scores
  ELSE <<>>

ListSum(has, field) ==
  IF has /\ field.t = "list" /\ Len(field.v) > 0
  THEN Num(SumSeq(Finite(field.v))) ELSE NullNum

ListMean(has, field) ==
  IF has /\ field.t = "list" /\ Len(field.v) > 0
  THEN Frac(SumSeq(Finite(field.v)), Len(field.v)) ELSE NullNum

\* C14: practiceTotals gives, per distance, null for sum and average exactly
\* when the list is empty or there is no bullseye block, else the sum and
\* the mean; bullTotalSum is sum(m10) + sum(m15) when the block exists;
\* animalTotal is the sum of the scores, null without an animal block;
\* {m10: [], m15: [8, 9]} gives null, null, 8.5 and 17.
C14_PracticeTotals ==
  (calcIn.fn = "practiceTotals" /\ calcOut.kind # "none") =>
     LET b == calcIn.arg.bullseye
         a == calcIn.arg.animal
     IN /\ calcOut.bull10Sum = ListSum(b.has, b.m10)
        /\ calcOut.bull15Sum = ListSum(b.has, b.m15)
        /\ calcOut.bull10Avg = ListMean(b.has, b.m10)
        /\ calcOut.bull15Avg = ListMean(b.has, b.m15)
        /\ calcOut.bullTotalSum =
             IF b.has
             THEN Num(SumSeq(Finite(ArrayOrEmpty(b.m10) \o ArrayOrEmpty(b.m15))))
             ELSE NullNum
        /\ calcOut.animalTotal =
             IF a.has THEN Num(SumSeq(Finite(a.scores))) ELSE NullNum
        /\ b = PBullseye(NumList(<<>>), NumList(<<8, 9>>)) =>
             /\ calcOut.bull10Sum = NullNum
             /\ calcOut.bull10Avg = NullNum
             /\ SameNum(calcOut.bull15Avg, Frac(85, 10))
             /\ calcOut.bullTotalSum = Num(17)

\* the example session has been totalled: nothing shot at 10 m, 8 and 9 at 15 m
C14_Witness ==
  /\ calcIn.fn = "practiceTotals"
  /\ calcIn.arg.bullseye = PBullseye(NumList(<<>>), NumList(<<8, 9>>))
  /\ calcOut.kind = "totals"
  /\ calcOut.bull10Avg = NullNum
  /\ calcOut.bull15Sum = Num(17)

\* the ordinary-least-squares slope of ys against the indices 0..n-1:
\* (n * Sum(i * y) - Sum(i) * Sum(y)) / (n * Sum(i * i) - Sum(i)^2)
LeastSquaresSlope(ys) ==
  LET n == Len(ys)
      si == SumSeq([i \in 1..n |-> i - 1])
      sii == SumSeq([i \in 1..n |-> (i - 1) * (i - 1)])
      siy == SumSeq([i \in 1..n |-> (i - 1) * ys[i]])
  IN Frac(n * siy - si * SumSeq(ys), n * sii - si * si)

Increasing(ys) == \A i \in 1..(Len(ys) - 1) : ys[i] < ys[i + 1]
Decreasing(ys) == \A i \in 1..(Len(ys) - 1) : ys[i] > ys[i + 1]
Constant(ys) == \A i \in 1..(Len(ys) - 1) : ys[i] = ys[i + 1]

\* C20: linearSlope is null exactly for fewer than 2 values; otherwise it is
\* the least-squares slope against the indices 0..n-1: 1 for [1,2,3,4], 0
\* for a constant series, positive for a strictly increasing and negative
\* for a strictly decreasing one.
C20_LinearSlope ==
  (calcIn.fn = "linearSlope" /\ calcOut.kind # "none") =>
     /\ calcOut = NullNum <=> Len(calcIn.arg) < 2
     /\ Len(calcIn.arg) >= 2 =>
          /\ SameNum(calcOut, LeastSquaresSlope(calcIn.arg))
          /\ calcOut.den > 0
          /\ Increasing(calcIn.arg) => calcOut.num > 0
          /\ Decreasing(calcIn.arg) => calcOut.num < 0
          /\ Constant(calcIn.arg) => calcOut.num = 0
     /\ calcIn.arg = <<1, 2, 3, 4>> => SameNum(calcOut, Num(1))
     /\ calcIn.arg = <<5>> => calcOut = NullNum

\* the slope of the series 1, 2, 3, 4 has been computed
C20_Witness ==
  /\ calcIn.fn = "linearSlope"
  /\ calcIn.arg = <<1, 2, 3, 4>>
  /\ calcOut.kind = "num"
  /\ calcOut.num = calcOut.den

\* C15: each of the five destructive handlers (delete practice session,
\* delete competition record, delete aim map, delete profile, wipe) asks
\* first, and a refusal leaves the document, the slot and the editing state
\* (the three editing ids, the aim draft, the marker being dragged) as they
\* were.
Declined ==
  \/ wipeOf(FALSE)
  \/ aimDeleteOf(FALSE)
  \/ \E i \in 1..Len(practiceForActive(state)) : deletePracticeOf(i, FALSE)
  \/ \E i \in 1..Len(competitionsForActive(state)) : deleteCompetitionOf(i, FALSE)
  \/ \E i \in 1..Len(rows) : Len(state.profiles) > 1 /\ deleteProfileOf(i, FALSE)

C15_DeclineKeepsAll ==
  [][ \/ UNCHANGED <<state, slot, editingPracticeId, editingCompId,
                     editingAimId, aimDraft, draggingMarker>>
      \/ ~Declined ]_vars

C15_Witness ==
  /\ lastAlert = "declined"
  /\ editingPracticeId # None
  /\ editingCompId # None
  /\ aimDraft # NoDraft
  /\ Len(state.profiles) > 1
  /\ slot = JSONstringify(state)

\* C16: every record the practice or the competition form writes holds
\* per-round bullseye scores in 0..50, animal scores and a `tens` count in
\* 0..999, and 0 wherever the input was not a finite number.  (A step that
\* leaves an editing id set, or changes the other list, is not a submit of
\* the form in question.)
ScoresWithin(stored, inputs, hi) ==
  /\ Len(stored) = Len(inputs)
  /\ \A i \in 1..Len(stored) :
        /\ stored[i] \in 0..hi
        /\ ~NumberIsFinite(inputs[i]) => stored[i] = 0

WrittenId(editing) == IF editing # None THEN editing ELSE nextUid + 1

PracticeWithin(r, f) ==
  /\ r.bullseye.has = f.bull
  /\ r.animal.has = f.animal
  /\ f.bull => /\ r.bullseye.m10.t = "list"
               /\ r.bullseye.m15.t = "list"
               /\ ScoresWithin(r.bullseye.m10.v, f.m10, 50)
               /\ ScoresWithin(r.bullseye.m15.v, f.m15, 50)
  /\ f.animal => ScoresWithin(r.animal.scores, f.scores, 999)

CompWithin(r, f) ==
  /\ ScoresWithin(<<r.tens>>, <<f.tens>>, 999)
  /\ r.bullseye.has = (f.round = "bullseye")
  /\ r.animal.has = (f.round # "bullseye")
  /\ r.animal.has => ScoresWithin(r.animal.scores, f.scores, 999)
  /\ (r.bullseye.has /\ r.bullseye.format = "4x10") =>
        /\ r.bullseye.m10.t = "list"
        /\ ScoresWithin(r.bullseye.m10.v, f.c10, 50)
  /\ (r.bullseye.has /\ r.bullseye.format = "2sets") =>
        /\ Len(r.bullseye.sets) = Len(f.sets)
        /\ \A k \in 1..Len(f.sets) :
              /\ ScoresWithin(r.bullseye.sets[k].m10, f.sets[k].m10, 50)
              /\ ScoresWithin(r.bullseye.sets[k].m15, f.sets[k].m15, 50)

C16_FormScoresInRange ==
  [][ /\ \/ editingPracticeId' # None
         \/ state'.competitions # state.competitions
         \/ \A f \in PracticeForms, now \in Times :
           (f.date # None /\ PracticeSubmitOf(f, now)) =>
              \A i \in 1..Len(state'.practice) :
                 state'.practice[i].id = WrittenId(editingPracticeId) =>
                    PracticeWithin(state'.practice[i], f)
      /\ \/ editingCompId' # None
         \/ state'.practice # state.practice
         \/ \A f \in CompForms, now \in Times :
           (f.date # None /\ f.event /\ CompSubmitOf(f, now)) =>
              \A i \in 1..Len(state'.competitions) :
                 state'.competitions[i].id = WrittenId(editingCompId) =>
                    CompWithin(state'.competitions[i], f) ]_vars

\* both forms have stored a record whose inputs were out of range or not
\* numbers
C16_Witness ==
  /\ \E i \in 1..Len(state.practice) :
        /\ state.practice[i].animal.has
        /\ state.practice[i].animal.scores = <<8, 10, 0, 5, 999, 0>>
  /\ \E i \in 1..Len(state.competitions) :
        /\ state.competitions[i].animal.has
        /\ state.competitions[i].animal.scores = <<10, 8, 5, 0, 999, 8>>
        /\ state.competitions[i].tens = 0

\* C17: a confirmed wipe leaves the slot deleted and a fresh default document
\* in memory: one new profile, which is active, no practice, competition or
\* aim-map records, nothing of the previous document, and the practice and
\* competition editing ids and the aim draft cleared.
FreshDocument ==
  /\ Len(state'.profiles) = 1
  /\ state'.profiles[1].id \notin AllIds(state)
  /\ state'.activeProfileId = state'.profiles[1].id
  /\ state'.practice = <<>>
  /\ state'.competitions = <<>>
  /\ state'.aimMaps = <<>>
  /\ editingPracticeId' = None
  /\ editingCompId' = None
  /\ aimDraft' = NoDraft

C17_WipeClears ==
  [][wipeOf(TRUE) => (slot' = AbsentText /\ FreshDocument)]_vars

\* C18: a click on the overlay, a drag of a marker and the clear button each
\* take a draft whose marks have pairwise distinct distances to one whose
\* marks have pairwise distinct distances; after a click with distance d
\* selected the draft holds exactly the clicked position for d, and for
\* every other distance the mark it held before.
DistinctDistances(marks) ==
  \A i, j \in 1..Len(marks) : marks[i].distance = marks[j].distance => i = j

MarksAt(marks, distance) ==
  {marks[i] : i \in {j \in 1..Len(marks) : marks[j].distance = distance}}

MarkStep ==
  \/ \E distance \in ANIMAL_DISTANCES, x \in Coords, y \in Coords :
        aimOverlayClickOf(distance, x, y)
  \/ \E x \in Coords, y \in Coords : markerPointerMoveOf(x, y)
  \/ \E distance \in ANIMAL_DISTANCES : aimClearDistanceOf(distance)

C18_OneMarkPerDistance ==
  [][ /\ \/ DistinctDistances(aimDraft'.marks)
         \/ ~DistinctDistances(aimDraft.marks)
         \/ ~MarkStep
      /\ \A distance \in ANIMAL_DISTANCES, x \in Coords, y \in Coords :
           aimOverlayClickOf(distance, x, y) =>
             /\ MarksAt(aimDraft'.marks, distance) = {Mark(distance, x, y)}
             /\ \A other \in ANIMAL_DISTANCES \ {distance} :
                   MarksAt(aimDraft'.marks, other) = MarksAt(aimDraft.marks, other) ]_vars

\* the stored 10 m mark has been replaced by a click, the 15 m mark dragged
C18_Witness ==
  /\ aimDraft # NoDraft
  /\ Len(aimDraft.marks) = 2
  /\ MarksAt(aimDraft.marks, 10) = {Mark(10, 1, 0)}
  /\ MarksAt(aimDraft.marks, 15) = {Mark(15, 0, 1)}
  /\ aimDraft.marks[2].distance = 10

\* C19: picking a file changes neither the draft nor the image shown; a read
\* that fails changes neither the draft, the document, the slot nor the image
\* shown; a read that succeeds while a draft is open gives the draft the
\* file as an uploaded image and shows it; and where no map held an uploaded
\* image, a draft comes to hold one only in a step in which a read succeeds.
ImageFields(m) == <<m.imageData, m.imageKind, m.builtinKey>>

NoUploadYet ==
  /\ aimDraft.imageKind # "upload"
  /\ \A i \in 1..Len(state.aimMaps) : state.aimMaps[i].imageKind # "upload"

C19_UploadAfterRead ==
  [][ /\ (\E file \in UploadFiles : aimUploadOf(file)) =>
           UNCHANGED <<aimDraft, state, slot, aimImg>>
      /\ \A k \in 1..Len(uploads) :
           /\ readSettledOf(k, FALSE) => UNCHANGED <<aimDraft, state, slot, aimImg>>
           /\ (aimDraft # NoDraft /\ readSettledOf(k, TRUE)) =>
                 /\ ImageFields(aimDraft') = <<uploads[k].file, "upload", "">>
                 /\ aimImg' = [kind |-> "upload", src |-> uploads[k].file]
                 /\ slot' = slot
      /\ \/ aimDraft'.imageKind # "upload"
         \/ ~NoUploadYet
         \/ \E k \in 1..Len(uploads) : readSettledOf(k, TRUE) ]_vars

\* a read has succeeded: the draft and the image shown hold the file, the
\* stored map and the slot do not
C19_Witness ==
  /\ aimDraft # NoDraft
  /\ ImageFields(aimDraft) = <<"photo", "upload", "">>
  /\ aimImg = [kind |-> "upload", src |-> "photo"]
  /\ uploads = <<>>
  /\ \A i \in 1..Len(state.aimMaps) : state.aimMaps[i].imageKind = "builtin"
  /\ slot = JSONstringify(state)

\* C21: pearson(xs, ys) is null exactly when the lengths differ, the length
\* is below 2 or one of the series is constant; otherwise its value lies in
\* [-1, 1], has the sign of the covariance, and is 1 when xs and ys are the
\* same non-constant series; pearson([1,2,3],[1,2,3]) = 1 and
\* pearson([1,1,1],[1,2,3]) = null.
ConstantSeries(s) == \A i, j \in 1..Len(s) : s[i] = s[j]

Covariance(xs, ys) ==
  Len(xs) * SumSeq([i \in 1..Len(xs) |-> xs[i] * ys[i]]) - SumSeq(xs) * SumSeq(ys)

One == [kind |-> "float", m |-> Pow2(MantissaBits - 1), e |-> 1 - MantissaBits]

\* |m * 2^e| <= 1
WithinOne(r) ==
  \/ r.m = 0
  \/ r.e <= -MantissaBits
  \/ (r.e = 1 - MantissaBits /\ Abs(r.m) = Pow2(MantissaBits - 1))

C21_Pearson ==
  (calcIn.fn = "pearson" /\ calcOut.kind # "none") =>
    LET xs == calcIn.arg.xs
        ys == calcIn.arg.ys
        degenerate == \/ Len(xs) # Len(ys)
                      \/ Len(xs) < 2
                      \/ ConstantSeries(xs)
                      \/ ConstantSeries(ys)
    IN /\ calcOut = NullNum <=> degenerate
       /\ ~degenerate =>
            /\ calcOut.kind = "float"
            /\ WithinOne(calcOut)
            /\ Covariance(xs, ys) > 0 => calcOut.m > 0
            /\ Covariance(xs, ys) < 0 => calcOut.m < 0
            /\ xs = ys => calcOut = One

LoadedText ==
  /\ lpass = 1
  /\ ltext.kind = "object"
  /\ ~RepairThrows(MergeDefaults(ltext, FirstUid + 1))

StoredPractice == IF ltext.practice.isList THEN ltext.practice.items ELSE <<>>
StoredCompetitions ==
  IF ltext.competitions.isList THEN ltext.competitions.items ELSE <<>>

\* record `new` is record `old` except, possibly, for its owner
SameButOwner(old, new) == new = [old EXCEPT !.profileId = new.profileId]

BareDistance(c) ==
  c.round = "bullseye" /\ c.bullseye.has
    /\ (c.bullseye.m10.t = "num" \/ c.bullseye.m15.t = "num")

PracticeMigrated(old, new) ==
  /\ old.bullseye.has /\ old.bullseye.m10.t = "num"
       => new.bullseye.m10 = NumList(old.bullseye.m10.v)
  /\ old.bullseye.has /\ old.bullseye.m15.t = "num"
       => new.bullseye.m15 = NumList(old.bullseye.m15.v)
  /\ (old.bullseye.has => old.bullseye.m10.t = "list" /\ old.bullseye.m15.t = "list")
       => SameButOwner(old, new)

CompetitionMigrated(old, new) ==
  /\ BareDistance(old) =>
       /\ new.bullseye.has /\ new.bullseye.format = "legacy"
       /\ new.bullseye.m10.t = "list" /\ Len(new.bullseye.m10.v) = 1
       /\ new.bullseye.m15.t = "list" /\ Len(new.bullseye.m15.v) = 1
       /\ old.bullseye.m10.t = "num" => new.bullseye.m10.v = old.bullseye.m10.v
       /\ old.bullseye.m15.t = "num" => new.bullseye.m15.v = old.bullseye.m15.v
       /\ new.category = (IF old.category = "" THEN "adult" ELSE old.category)
  /\ ~BareDistance(old) => SameButOwner(old, new)

\* C23: after a load, a practice session stored with a bare number n at a
\* distance holds the list [n] there; a bullseye competition stored with a
\* bare number at 10 m or 15 m holds format 'legacy' and one-element lists
\* with the stored numbers, and category 'adult' only when it had none;
\* sessions with lists and competitions without bare numbers are as stored.
C23_LegacyMigration ==
  LoadedText =>
    /\ Len(ldoc.practice) = Len(StoredPractice)
    /\ Len(ldoc.competitions) = Len(StoredCompetitions)
    /\ \A i \in 1..Len(StoredPractice) :
         PracticeMigrated(StoredPractice[i], ldoc.practice[i])
    /\ \A i \in 1..Len(StoredCompetitions) :
         CompetitionMigrated(StoredCompetitions[i], ldoc.competitions[i])

\* a loaded text with a bare-number session, a one-distance legacy
\* competition that had a category, and a tagged competition
C23_Witness ==
  /\ LoadedText
  /\ \E i \in 1..Len(StoredPractice) : StoredPractice[i].bullseye.m10.t = "num"
  /\ \E i \in 1..Len(StoredCompetitions) :
       BareDistance(StoredCompetitions[i]) /\ StoredCompetitions[i].category # ""
  /\ \E i \in 1..Len(StoredCompetitions) :
       StoredCompetitions[i].bullseye.format = "4x10"

\* the shape the form gives a record of its category
CategoryShape(c) ==
  IF c.round = "bullseye"
  THEN /\ c.category \in CompCategories
       /\ c.bullseye.has
       /\ c.category \in {"cub", "beginner"} =>
            /\ c.bullseye.format = "4x10"
            /\ c.bullseye.m10.t = "list"
            /\ Len(c.bullseye.m10.v) = 4
       /\ c.category \in {"junior", "senior", "adult"} =>
            /\ c.bullseye.format = "2sets"
            /\ Len(c.bullseye.sets) = 2
            /\ \A k \in 1..2 : /\ Len(c.bullseye.sets[k].m10) = 3
                                /\ Len(c.bullseye.sets[k].m15) = 3
  ELSE c.category = "" /\ ~c.bullseye.has

\* C24: a competition record the form stores has, for round 'bullseye',
\* format '4x10' with four values if its category is cub or beginner and
\* format '2sets' with two sets of three 10 m and three 15 m values if it is
\* junior, senior or adult; for round 'animal' it has neither category nor
\* bullseye.
C24_CategoryFormat ==
  [][\A i \in 1..Len(state'.competitions) :
       (\A j \in 1..Len(state.competitions) :
           state.competitions[j] # state'.competitions[i])
         => CategoryShape(state'.competitions[i])]_vars

\* a beginner's four rounds and nothing else are stored
C24_Witness ==
  \E i \in 1..Len(state.competitions) :
    /\ state.competitions[i].category = "beginner"
    /\ state.competitions[i].bullseye.format = "4x10"
    /\ state.competitions[i].bullseye.m10.v = <<50, 50, 50, 50>>

\* a step of one of the handlers that edit the draft
DraftEdit ==
  \/ aimOverlayClick
  \/ aimClearDistance
  \/ markerPointerMove
  \/ readSettled

\* C25: setting, clearing and dragging a mark and loading an image change
\* the draft only, before the first Save and after every Save; the entry of
\* the map in the document changes only when Save is pressed, and Cancel
\* leaves the document as the last Save left it.
C25_DraftIsolation ==
  [][/\ DraftEdit => state'.aimMaps = state.aimMaps
     /\ closeAimEditor => state' = state]_vars

\* C26: when a pending file read settles, whatever happened in between, the
\* image goes to the draft of the map that was open when the file was picked
\* and to no other; once that editor session is over nothing changes and the
\* handler ends without an error.
C26_UploadTarget ==
  [][\A k \in 1..Len(uploads), read \in BOOLEAN :
       readSettledOf(k, read) =>
         /\ lastAlert' # "TypeError"
         /\ editingAimId # uploads[k].map =>
              aimDraft' = aimDraft /\ state' = state /\ aimImg' = aimImg]_vars

\* the profile a record counts for in document d: its profileId if set, else
\* the active profile (r.profileId || pid)
OwnerIn(d, r) == IF Falsy(r.profileId) THEN getActiveProfileId(d) ELSE r.profileId

\* every record of `after` that `before` holds under the same id has the
\* owner it had
OwnersKept(before, after, d, e) ==
  \A i \in 1..Len(before), j \in 1..Len(after) :
    before[i].id = after[j].id => OwnerIn(e, after[j]) = OwnerIn(d, before[i])

\* C27: a session, competition or aim map, seeded or created while profile
\* P is active, counts for P as long as it exists and is not saved again
\* from a form; using, renaming or adding a profile moves no record to
\* another profile.
C27_StableOwnership ==
  [][/\ OwnersKept(state.practice, state'.practice, state, state')
     /\ OwnersKept(state.competitions, state'.competitions, state, state')
     /\ OwnersKept(state.aimMaps, state'.aimMaps, state, state')]_vars

\* list `after` holds a record with the values of form f submitted at `now`
HoldsSubmitted(after, f, now) ==
  \E i \in 1..Len(after) :
    /\ editingPracticeId # None => after[i].id = editingPracticeId
    /\ [after[i] EXCEPT !.createdAt = None] = BuildSession(state, after[i].id, f, now)

\* C28: a submit of the practice form with its date filled in leaves a
\* session with the submitted values in the document, one more session than
\* before when creating and as many as before when editing, whatever import,
\* wipe or deletion came between the start of the edit and the submit.
C28_NoLostSubmit ==
  [][\A f \in PracticeForms, now \in Times :
       (f.date # None /\ PracticeSubmitOf(f, now)) =>
         /\ HoldsSubmitted(state'.practice, f, now)
         /\ Len(state'.practice) =
              Len(state.practice) + (IF editingPracticeId = None THEN 1 ELSE 0)]_vars

\* document d without the sessions and competitions of other profiles than
\* the active one
OwnRecordsOnly(d) ==
  [d EXCEPT !.practice = practiceForActive(d),
            !.competitions = competitionsForActive(d)]

\* C29: with profile P active, the progress series of every metric and the
\* trend points are those of P's sessions and competitions alone: taking
\* the records of the other profiles away changes none of them.
C29_OwnStatistics ==
  \A metric \in Metrics :
    /\ getSeries(state, metric) = getSeries(OwnRecordsOnly(state), metric)
    /\ TrendPoints(state, metric) = TrendPoints(OwnRecordsOnly(state), metric)

\* C30: every bullseye competition of the document, loaded (older
\* single-number records migrated) or stored by the form, has a maximum, and
\* its total is at most that maximum.
C30_TotalWithinMax ==
  \A i \in 1..Len(state.competitions) :
    LET c == state.competitions[i]
    IN c.round = "bullseye" =>
         /\ competitionMax(c).kind = "num"
         /\ competitionTotal(c).kind = "num"
         /\ competitionTotal(c).num <= competitionMax(c).num
====
